---- MODULE Spec2Model ----
(***************************************************************************)
(* Model of cf-xray-proxy: the weighted backend pool with hysteretic       *)
(* health and periodic probes (src/src/backend.ts), the failover driver    *)
(* (src/src/index.ts, handleWithBackendFailover), and the two admission    *)
(* controllers driven by the router (src/src/ratelimit.ts,                 *)
(* src/src/uuid-manager.ts, src/src/index.ts fetch).                       *)
(*                                                                         *)
(* Time is counted in ticks of 30 s: the health-check interval and the     *)
(* rate limiter's cleanup interval are one tick, the rate limiter's idle   *)
(* TTL and the identity manager's cleanup interval are two ticks.          *)
(* Backends are numbered 1..NumBackends (the code's index + 1); a          *)
(* backend's key (its canonical URL string) is its number.                 *)
(***************************************************************************)
EXTENDS Integers, Sequences, FiniteSets, TLC

\* ---------------------------------------------------------------- bounds
NumBackends == 2
MaxTime == 2
MaxFailures == 2
NumReqs == 2
NumIps == 2
MaxMsgs == 2
MaxChunks == 2
MaxSegments == 2
MaxGcTime == 3
MaxSessions == 3
MaxEntries == 3
MaxWeight == 3

\* --------------------------------------------------- program constants
DEFAULT_BACKEND_WEIGHT == 1
FAILURE_HYSTERESIS_COUNT == 1
RECOVERY_HYSTERESIS_COUNT == 2
ALIAS_MIN_SAMPLE_ATTEMPTS == 4
ALIAS_SAMPLE_ATTEMPTS_MULTIPLIER == 2
MAX_RETRIES == 3
HealthCheckIntervalTicks == 1

\* consecutiveSuccesses is only ever compared with RECOVERY_HYSTERESIS_COUNT.
MaxSuccesses == RECOVERY_HYSTERESIS_COUNT + 1

Backends == 1..NumBackends
Drivers == {1}
None == 0

\* BACKEND_LIST = "A|3,B|1,...": the first backend has weight 3, the others 1.
Weight(i) == IF i = 1 THEN 3 ELSE 1

Range(s) == {s[i] : i \in 1..Len(s)}
Max(a, b) == IF a >= b THEN a ELSE b

VARIABLES
  now,                  \* Date.now(), in ticks
  stickySession,        \* BackendManager.stickySession (configuration)
  backends,             \* BackendManager.backends: per backend its runtime state
  healthyAliasTable,    \* BackendManager.healthyAliasTable
  healthyIndexHeap,     \* BackendManager.healthyIndexHeap.heap
  healthCheckInFlight,  \* BackendManager.healthCheckInFlight
  nextHealthCheckAt,    \* BackendManager.nextHealthCheckAt
  probePending,         \* backends whose checkBackendHealth promise is unsettled
  probeChanges,         \* results of the settled promises of the running cycle
  drv,                  \* per request: the state of handleWithBackendFailover
  successRun,           \* history: consecutive successes reported on an unhealthy backend
  rateLimiter,          \* ConnectionRateLimiter: stateByIp, nextCleanupAt, maxConnPerIp, maxConnPerMin
  uuidManager,          \* UUIDConnectionManager: its bucket, uuidByConnectionId, nextCleanupAt
  req                   \* per upgrade request: the state of fetch and of its bridge

poolVars == <<stickySession, backends, healthyAliasTable, healthyIndexHeap,
              healthCheckInFlight, nextHealthCheckAt, probePending, probeChanges,
              drv, successRun>>

admitVars == <<rateLimiter, uuidManager, req>>

VARIABLES
  bridge,               \* one bridgeSockets call: its closure variables and its two sockets
  subscriptionCache,    \* SubscriptionCache: its list (head first), nodesByKey, totalBytes, nextCleanupAt
  sub,                  \* per subscription request: the state of handleSubscriptionRequest
  stored                \* history: per cache key, the times at which set stored a response

cacheVars == <<subscriptionCache, sub, stored>>

VARIABLES
  read,                 \* one readResponseBodyWithLimit call and the response it reads
  route,                \* one routed request: what fetch derived from its URL and headers
  up,                   \* one handleUpgrade call of a transport handler
  idm,                  \* a UUIDConnectionManager serving several identities
  ctor                  \* one BackendManager construction: its BACKEND_LIST, backends and alias table

callVars == <<read, route, up, idm, ctor>>

VARIABLES
  xh,                   \* one xhttp upgrade: its early data, its dials and what the backend sockets got
  gc                    \* a rate limiter called directly, beside one that never deletes a state

lateVars == <<xh, gc>>

\* the state of the components other than the pool and the admission control
restVars == <<bridge, cacheVars, callVars, lateVars>>

\* what the steps of one component leave unchanged
notBridgeVars == <<now, poolVars, admitVars, cacheVars, callVars, lateVars>>
notCacheVars == <<poolVars, admitVars, bridge, callVars, lateVars>>
notReadVars == <<now, poolVars, admitVars, bridge, cacheVars, route, up, idm, ctor, lateVars>>
notRouteVars == <<now, poolVars, admitVars, bridge, cacheVars, read, up, idm, ctor, lateVars>>
notUpVars == <<now, poolVars, admitVars, bridge, cacheVars, read, route, idm, ctor, lateVars>>
notIdmVars == <<now, poolVars, admitVars, bridge, cacheVars, read, route, up, ctor, lateVars>>
notCtorVars == <<now, poolVars, admitVars, bridge, cacheVars, read, route, up, idm, lateVars>>
notXhVars == <<now, poolVars, admitVars, bridge, cacheVars, callVars, gc>>
notGcVars == <<now, poolVars, admitVars, bridge, cacheVars, callVars, xh>>

\* ------------------------------------------------------- alias table
NoTable == [probabilities |-> <<>>, aliases |-> <<>>, backendIndexes |-> <<>>,
            denominator |-> 1]

RECURSIVE SumSeq(_)
SumSeq(q) == IF q = <<>> THEN 0 ELSE Head(q) + SumSeq(Tail(q))

\* The pairing loop without the carry: the large slot keeps its scaled weight.
RECURSIVE VoseLoop_NoCarry(_, _, _, _, _, _)
VoseLoop_NoCarry(small, large, scaled, probabilities, aliases, total) ==
  IF Len(small) > 0 /\ Len(large) > 0
  THEN LET less == small[Len(small)]
           more == large[Len(large)]
           small1 == SubSeq(small, 1, Len(small) - 1)
       IN VoseLoop_NoCarry(small1, large, scaled,
                           [probabilities EXCEPT ![less] = scaled[less]],
                           [aliases EXCEPT ![less] = more],
                           total)
  ELSE LET rest == Range(small) \cup Range(large)
       IN [probabilities |-> [i \in 1..Len(probabilities) |->
                                IF i \in rest THEN total ELSE probabilities[i]],
           aliases |-> [i \in 1..Len(aliases) |->
                                IF i \in rest THEN i ELSE aliases[i]]]

\* The pairing loop and the two draining loops of buildAliasTable.  scaled and
\* probabilities are numerators over totalWeight, so "< 1" reads "< total".
RECURSIVE VoseLoop(_, _, _, _, _, _)
VoseLoop(small, large, scaled, probabilities, aliases, total) ==
  IF Len(small) > 0 /\ Len(large) > 0
  THEN LET less == small[Len(small)]
           more == large[Len(large)]
           small1 == SubSeq(small, 1, Len(small) - 1)
           large1 == SubSeq(large, 1, Len(large) - 1)
           updated == scaled[more] + scaled[less] - total
       IN VoseLoop(IF updated < total THEN Append(small1, more) ELSE small1,
                   IF updated < total THEN large1 ELSE Append(large1, more),
                   [scaled EXCEPT ![more] = updated],
                   [probabilities EXCEPT ![less] = scaled[less]],
                   [aliases EXCEPT ![less] = more],
                   total)
  ELSE LET rest == Range(small) \cup Range(large)
       IN [probabilities |-> [i \in 1..Len(probabilities) |->
                                IF i \in rest THEN total ELSE probabilities[i]],
           aliases |-> [i \in 1..Len(aliases) |->
                                IF i \in rest THEN i ELSE aliases[i]]]

\* buildAliasTable over candidates whose weights are weights[i].
buildAliasTableOf(candidates, weights) ==
  LET size == Len(candidates) IN
  IF size = 0 THEN NoTable
  ELSE IF size = 1
  THEN [probabilities |-> <<1>>, aliases |-> <<1>>,
        backendIndexes |-> <<candidates[1]>>, denominator |-> 1]
  ELSE LET clamped == [i \in 1..size |-> Max(DEFAULT_BACKEND_WEIGHT, weights[i])]
           totalWeight == SumSeq(clamped)
           scaled == [i \in 1..size |-> clamped[i] * size]
           positions == [i \in 1..size |-> i]
           small == SelectSeq(positions, LAMBDA i : scaled[i] < totalWeight)
           large == SelectSeq(positions, LAMBDA i : ~(scaled[i] < totalWeight))
           filled == VoseLoop(small, large, scaled,
                              [i \in 1..size |-> 0], [i \in 1..size |-> 1],
                              totalWeight)
       IN [probabilities |-> filled.probabilities, aliases |-> filled.aliases,
           backendIndexes |-> candidates, denominator |-> totalWeight]

\* The pool's tables: candidate i has the weight BACKEND_LIST gives it.
buildAliasTable(candidates) ==
  buildAliasTableOf(candidates, [i \in 1..Len(candidates) |-> Weight(candidates[i])])

\* Every backend index sampleAliasTable can return: any bucket, and within it
\* the bucket itself when Math.random() < threshold can be true, its alias when
\* it can be false.
sampleAliasTable(table) ==
  LET size == Len(table.backendIndexes) IN
  IF size = 0 THEN {}
  ELSE IF size = 1 THEN {table.backendIndexes[1]}
  ELSE {table.backendIndexes[p] :
          p \in {q \in 1..size :
                   \E bucket \in 1..size :
                      \/ q = bucket /\ table.probabilities[bucket] > 0
                      \/ /\ q = table.aliases[bucket]
                         /\ table.probabilities[bucket] < table.denominator}}

\* ----------------------------------------------------- min-index heap
RECURSIVE siftUp(_, _)
siftUp(heap, index) ==
  IF index <= 1 THEN heap
  ELSE LET parent == index \div 2 IN
       IF heap[parent] <= heap[index] THEN heap
       ELSE siftUp([heap EXCEPT ![index] = heap[parent], ![parent] = heap[index]],
                   parent)

HeapInsert(heap, value) ==
  IF value \in Range(heap) THEN heap
  ELSE siftUp(Append(heap, value), Len(heap) + 1)

HeapPeek(heap) == IF Len(heap) = 0 THEN None ELSE heap[1]

RECURSIVE HeapInsertAll(_, _)
HeapInsertAll(heap, values) ==
  IF values = <<>> THEN heap
  ELSE HeapInsertAll(HeapInsert(heap, Head(values)), Tail(values))

\* ----------------------------------------------- selection structures
allAliasTable == buildAliasTable([i \in 1..NumBackends |-> i])

HealthyBackends(bs) == SelectSeq([i \in 1..NumBackends |-> i], LAMBDA i : bs[i].healthy)

\* rebuildHealthySelectionStructures, as the pair of structures it leaves.
rebuildHealthySelectionStructures(bs) ==
  [heap |-> HeapInsertAll(<<>>, HealthyBackends(bs)),
   table |-> buildAliasTable(HealthyBackends(bs))]


\* ------------------------------------------------------------ selection
Healthy(b) == backends[b].healthy

pickByOrder(excluded, healthyOnly) ==
  LET ok == {i \in Backends : (healthyOnly => Healthy(i)) /\ i \notin excluded}
  IN IF ok = {} THEN {None} ELSE {CHOOSE i \in ok : \A j \in ok : i <= j}

pickStickyHealthy(excluded) ==
  LET topHealthyIndex == HeapPeek(healthyIndexHeap) IN
  IF topHealthyIndex # None /\ Healthy(topHealthyIndex) /\ topHealthyIndex \notin excluded
  THEN {topHealthyIndex}
  ELSE pickByOrder(excluded, TRUE)

\* pickFromAlias: the candidates the bounded sampling loop can return, and the
\* result of the in-order scan when every sample may have hit an excluded one.
pickFromAlias(table, excluded) ==
  IF Len(table.backendIndexes) = 0 THEN {None}
  ELSE IF excluded = {} THEN sampleAliasTable(table)
  ELSE LET samples == sampleAliasTable(table)
           left == {p \in 1..Len(table.backendIndexes) :
                      table.backendIndexes[p] \notin excluded}
           scan == IF left = {} THEN None
                   ELSE table.backendIndexes[CHOOSE p \in left : \A q \in left : p <= q]
       IN (samples \ excluded) \cup (IF samples \cap excluded # {} THEN {scan} ELSE {})

pickHealthy(excluded) ==
  IF stickySession THEN pickStickyHealthy(excluded)
  ELSE pickFromAlias(healthyAliasTable, excluded)

pickAny_NoFallback(excluded) == {None}

pickAny(excluded) ==
  IF stickySession THEN pickByOrder(excluded, FALSE)
  ELSE pickFromAlias(allAliasTable, excluded)

\* getBackend after its scheduling step: every backend it can return.
getBackend(excluded) ==
  LET healthyCandidate == pickHealthy(excluded)
      fallbackCandidate == pickAny(excluded)
  IN (healthyCandidate \ {None})
       \cup (IF None \in healthyCandidate
             THEN (fallbackCandidate \ {None})
                     \cup (IF None \in fallbackCandidate THEN {1} ELSE {})
             ELSE {})

\* maybeRunScheduledHealthChecks without the schedule mark: the cycle is
\* dispatched and nextHealthCheckAt keeps its value.
maybeRunScheduledHealthChecks_NoMark ==
  IF healthCheckInFlight \/ now < nextHealthCheckAt
  THEN UNCHANGED <<healthCheckInFlight, nextHealthCheckAt, probePending, probeChanges>>
  ELSE /\ UNCHANGED nextHealthCheckAt
       /\ healthCheckInFlight' = TRUE
       /\ probePending' = Backends
       /\ probeChanges' = FALSE

\* maybeRunScheduledHealthChecks with the synchronous start of runHealthChecks:
\* every backend's probe is dispatched before the first await.
maybeRunScheduledHealthChecks ==
  IF healthCheckInFlight \/ now < nextHealthCheckAt
  THEN UNCHANGED <<healthCheckInFlight, nextHealthCheckAt, probePending, probeChanges>>
  ELSE /\ nextHealthCheckAt' = now + HealthCheckIntervalTicks
       /\ healthCheckInFlight' = TRUE
       /\ probePending' = Backends
       /\ probeChanges' = FALSE

\* --------------------------------------------------------- health marks
Rebuilt(bs) ==
  /\ healthyIndexHeap' = rebuildHealthySelectionStructures(bs).heap
  /\ healthyAliasTable' = rebuildHealthySelectionStructures(bs).table

\* History of the reports made on b while it is unhealthy: a success report
\* that leaves b unhealthy lengthens its run of consecutive successes (counted
\* up to 2); a failure report ends the run, and so does b's turning healthy.
\* A backend turns unhealthy on a failure report, so the run of an unhealthy
\* backend counts every success reported on it since its last failure.
NoteReport(b, success) ==
  successRun' = [successRun EXCEPT ![b] =
                   IF success /\ ~backends'[b].healthy
                   THEN (IF @ >= 2 THEN 2 ELSE @ + 1)
                   ELSE 0]

\* BackendRuntimeState.failures (the total that getStates reports as
\* failureCount) is written next to consecutiveFailures by every health mark
\* and read by none of them; the state keeps consecutiveFailures, the counter
\* the health decisions read.
markFailed_FlipOnSecond(b) ==
  LET marked == [backends[b] EXCEPT !.consecutiveFailures = @ + 1,
                                    !.consecutiveSuccesses = 0]
      shouldFlipHealth == backends[b].healthy /\ marked.consecutiveFailures >= 2
  IN /\ NoteReport(b, FALSE)
     /\ IF ~shouldFlipHealth
        THEN /\ backends' = [backends EXCEPT ![b] = marked]
             /\ UNCHANGED <<healthyIndexHeap, healthyAliasTable>>
        ELSE LET bs == [backends EXCEPT ![b] = [marked EXCEPT !.healthy = FALSE]]
             IN backends' = bs /\ Rebuilt(bs)

markFailed(b) ==
  LET marked == [backends[b] EXCEPT !.consecutiveFailures = @ + 1,
                                    !.consecutiveSuccesses = 0]
      shouldFlipHealth == backends[b].healthy
                            /\ marked.consecutiveFailures >= FAILURE_HYSTERESIS_COUNT
  IN /\ NoteReport(b, FALSE)
     /\ IF ~shouldFlipHealth
        THEN /\ backends' = [backends EXCEPT ![b] = marked]
             /\ UNCHANGED <<healthyIndexHeap, healthyAliasTable>>
        ELSE LET bs == [backends EXCEPT ![b] = [marked EXCEPT !.healthy = FALSE]]
             IN backends' = bs /\ Rebuilt(bs)

markHealthy(b) ==
  LET marked == [backends[b] EXCEPT !.consecutiveFailures = 0,
                                    !.consecutiveSuccesses = RECOVERY_HYSTERESIS_COUNT]
  IN /\ IF backends[b].healthy
        THEN /\ backends' = [backends EXCEPT ![b] = marked]
             /\ UNCHANGED <<healthyIndexHeap, healthyAliasTable>>
        ELSE LET bs == [backends EXCEPT ![b] = [marked EXCEPT !.healthy = TRUE]]
             IN backends' = bs /\ Rebuilt(bs)
     /\ NoteReport(b, TRUE)

applyHealthProbeResult_RecoverOnFirst(backend, isHealthyResult) ==
  IF isHealthyResult
  THEN LET counted == [backend EXCEPT !.consecutiveSuccesses = @ + 1,
                                      !.consecutiveFailures = 0]
       IN IF backend.healthy
          THEN [state |-> counted, changed |-> FALSE]
          ELSE [state |-> [counted EXCEPT !.healthy = TRUE], changed |-> TRUE]
  ELSE LET counted == [backend EXCEPT !.consecutiveFailures = @ + 1,
                                      !.consecutiveSuccesses = 0]
       IN IF ~backend.healthy
          THEN [state |-> counted, changed |-> FALSE]
          ELSE [state |-> [counted EXCEPT !.healthy = FALSE], changed |-> TRUE]

\* applyHealthProbeResult: the backend's new state and the returned "changed".
applyHealthProbeResult(backend, isHealthyResult) ==
  IF isHealthyResult
  THEN LET counted == [backend EXCEPT !.consecutiveSuccesses = @ + 1,
                                      !.consecutiveFailures = 0]
       IN IF backend.healthy
          THEN [state |-> counted, changed |-> FALSE]
          ELSE IF counted.consecutiveSuccesses < RECOVERY_HYSTERESIS_COUNT
          THEN [state |-> counted, changed |-> FALSE]
          ELSE [state |-> [counted EXCEPT !.healthy = TRUE], changed |-> TRUE]
  ELSE LET counted == [backend EXCEPT !.consecutiveFailures = @ + 1,
                                      !.consecutiveSuccesses = 0]
       IN IF ~backend.healthy \/ counted.consecutiveFailures < FAILURE_HYSTERESIS_COUNT
          THEN [state |-> counted, changed |-> FALSE]
          ELSE [state |-> [counted EXCEPT !.healthy = FALSE], changed |-> TRUE]


\* ProbeResult without the finally block of runHealthChecks: the last probe
\* of a cycle leaves healthCheckInFlight set.
ProbeResult_NoFinally(b, isHealthyResult) ==
  /\ b \in probePending
  /\ IF isHealthyResult
     THEN backends[b].consecutiveSuccesses < MaxSuccesses
     ELSE backends[b].consecutiveFailures < MaxFailures
  /\ LET applied == applyHealthProbeResult(backends[b], isHealthyResult)
         bs == [backends EXCEPT ![b] = applied.state]
         changes == probeChanges \/ applied.changed
     IN /\ backends' = bs
        /\ probePending' = probePending \ {b}
        /\ IF probePending = {b}
           THEN /\ IF changes THEN Rebuilt(bs)
                   ELSE UNCHANGED <<healthyIndexHeap, healthyAliasTable>>
                /\ UNCHANGED healthCheckInFlight
                /\ probeChanges' = FALSE
           ELSE /\ UNCHANGED <<healthyIndexHeap, healthyAliasTable, healthCheckInFlight>>
                /\ probeChanges' = changes
  /\ NoteReport(b, isHealthyResult)
  /\ UNCHANGED <<now, admitVars, restVars, stickySession, nextHealthCheckAt, drv>>

\* ------------------------------------------------------- probe cycle
\* One checkBackendHealth promise settles: the probe answered with a status
\* below 500 (isHealthyResult) or failed.  When it is the last of the cycle,
\* Promise.all resolves and runHealthChecks finishes in the same turn.
ProbeResult(b, isHealthyResult) ==
  /\ b \in probePending
  /\ IF isHealthyResult
     THEN backends[b].consecutiveSuccesses < MaxSuccesses
     ELSE backends[b].consecutiveFailures < MaxFailures
  /\ LET applied == applyHealthProbeResult(backends[b], isHealthyResult)
         bs == [backends EXCEPT ![b] = applied.state]
         changes == probeChanges \/ applied.changed
     IN /\ backends' = bs
        /\ probePending' = probePending \ {b}
        /\ IF probePending = {b}
           THEN /\ IF changes THEN Rebuilt(bs)
                   ELSE UNCHANGED <<healthyIndexHeap, healthyAliasTable>>
                /\ healthCheckInFlight' = FALSE
                /\ probeChanges' = FALSE
           ELSE /\ UNCHANGED <<healthyIndexHeap, healthyAliasTable, healthCheckInFlight>>
                /\ probeChanges' = changes
  /\ NoteReport(b, isHealthyResult)
  /\ UNCHANGED <<now, admitVars, restVars, stickySession, nextHealthCheckAt, drv>>

\* ---------------------------------------------------- failover driver
\* What a transport handler can hand back: a response tagged as a backend
\* failure (every tagged response of the handlers is a 502), an untagged
\* response, or an exception. The untagged 400 and 500 are the responses the
\* handler makes itself before it contacts the backend (a non-GET upgrade,
\* invalid xhttp options or early data; an invalid backend URL).
LocalStatuses == {400, 500}

HandlerOutcomes ==
  {[kind |-> "response", tagged |-> TRUE, status |-> 502],
   [kind |-> "response", tagged |-> FALSE, status |-> 101],
   [kind |-> "response", tagged |-> FALSE, status |-> 200],
   [kind |-> "throw", tagged |-> FALSE, status |-> 0]}
    \cup {[kind |-> "response", tagged |-> FALSE, status |-> status] :
            status \in LocalStatuses}

resolveMaxRetryAttempts_OneMore == Max(1, MAX_RETRIES) + 1

resolveMaxRetryAttempts == Max(1, MAX_RETRIES)

IdleDriver ==
  [pc |-> "idle", attempt |-> 0, attemptedBackendUrls |-> <<>>,
   lastFailureResponse |-> None, calls |-> 0, markedFailed |-> <<>>,
   outcomes |-> <<>>, preferredHealthy |-> TRUE, status |-> 0]

\* The loop head of handleWithBackendFailover up to the handler call: entered
\* for the first attempt, and again when a backoff wait is over.
DriverSelect(r) ==
  /\ drv[r].pc \in {"idle", "backoff"}
  /\ maybeRunScheduledHealthChecks
  /\ LET excluded == Range(drv[r].attemptedBackendUrls) IN
     \E selectedBackend \in getBackend(excluded) :
       drv' = [drv EXCEPT ![r] =
                 [@ EXCEPT !.pc = "handler",
                           !.attempt = @ + 1,
                           !.attemptedBackendUrls = Append(@, selectedBackend),
                           !.calls = @ + 1,
                           !.preferredHealthy =
                              @ /\ ((\E b \in Backends \ excluded : Healthy(b))
                                      => Healthy(selectedBackend))]]
  /\ UNCHANGED <<now, admitVars, restVars, stickySession, backends, healthyAliasTable, healthyIndexHeap,
                 successRun>>

\* The handler's promise settles and the driver runs to its next await or to
\* its return.
DriverHandlerDone(r, outcome) ==
  /\ drv[r].pc = "handler"
  /\ LET d == drv[r]
         selectedBackend == d.attemptedBackendUrls[Len(d.attemptedBackendUrls)]
         failed == outcome.kind = "throw" \/ outcome.tagged
     IN IF ~failed
        THEN /\ markHealthy(selectedBackend)
             /\ drv' = [drv EXCEPT ![r] = [@ EXCEPT !.pc = "done",
                                                    !.outcomes = Append(@, "ok"),
                                                    !.status = outcome.status]]
        ELSE /\ backends[selectedBackend].consecutiveFailures < MaxFailures
             /\ markFailed(selectedBackend)
             /\ LET lastFailureResponse ==
                      IF outcome.kind = "response" THEN outcome.status
                      ELSE d.lastFailureResponse
                    marked == Append(d.markedFailed, selectedBackend)
                IN IF d.attempt < resolveMaxRetryAttempts
                   THEN drv' = [drv EXCEPT ![r] =
                                  [@ EXCEPT !.pc = "backoff",
                                            !.outcomes = Append(@, "failed"),
                                            !.markedFailed = marked,
                                            !.lastFailureResponse = None]]
                   ELSE drv' = [drv EXCEPT ![r] =
                                  [@ EXCEPT !.pc = "done",
                                            !.markedFailed = marked,
                                            !.outcomes = Append(@, "failed"),
                                            !.lastFailureResponse = lastFailureResponse,
                                            !.status =
                                               IF lastFailureResponse # None
                                               THEN lastFailureResponse ELSE 502]]
  /\ UNCHANGED <<now, admitVars, restVars, stickySession, healthCheckInFlight, nextHealthCheckAt,
                 probePending, probeChanges>>

\* The response has left; the slot stands for the next inbound request.
DriverReturn(r) ==
  /\ drv[r].pc = "done"
  /\ drv' = [drv EXCEPT ![r] = IdleDriver]
  /\ UNCHANGED <<now, admitVars, restVars, stickySession, backends, healthyAliasTable, healthyIndexHeap,
                 healthCheckInFlight, nextHealthCheckAt, probePending, probeChanges,
                 successRun>>

Tick ==
  /\ now < MaxTime
  /\ now' = now + 1
  /\ UNCHANGED <<poolVars, admitVars, restVars>>

\* ==================================================== admission control
\* Every request of this part is an upgrade-classified request
\* (isUpgradeRequest) that carries the same identity; the rate limiter is
\* enabled. Connection ids are created on arrival (createConnectionId), so
\* requests are numbered in their order of arrival. Client addresses are the
\* normalised ones.
Reqs == 1..NumReqs
IPs == 1..NumIps

\* Configuration as the constructors store it: env RATE_LIMIT_MAX_CONN_PER_IP
\* is one of ConfiguredMaxConnPerIp (the limiter's field maxConnPerIp),
\* RATE_LIMIT_MAX_CONN_PER_MIN is one of ConfiguredMaxConnPerMin (the
\* limiter's field maxConnPerMin), UUID_MAX_CONNECTIONS is maxConnections.
ConfiguredMaxConnPerIp == {1, 2}
ConfiguredMaxConnPerMin == {1, 2}
maxConnections == 1

\* ONE_MINUTE_MS in ticks of TickSeconds seconds. Tokens are counted in units
\* of 1/OneMinuteTicks token, so that the refill of one tick (maxConnPerMin /
\* OneMinuteTicks tokens) is the integer maxConnPerMin.
TickSeconds == 30
OneMinuteTicks == 2
CleanupIntervalTicks == 1
IdleStateTtlTicks == OneMinuteTicks
OneToken == OneMinuteTicks
bucketCapacity(rl) == rl.maxConnPerMin * OneToken
refillTokensPerTick(rl) == rl.maxConnPerMin
CONCURRENT_LIMIT_RETRY_AFTER_SECONDS == 10

UUID_REPLACED_CLOSE_CODE == 1008
UuidCleanupIntervalTicks == 2
UuidIdleBucketTtlTicks == 20
UUID_MAX_TRACKED_BUCKETS == 10000

\* The close code of a bridge that ends by itself: every close or error
\* event of a socket leads to the same closeBoth, with the event's code or
\* 1011; the code of a normal closure stands for them.
CloseCodes == {1000}

Min(a, b) == IF a <= b THEN a ELSE b

\* ------------------------------------------------ ConnectionRateLimiter
NoIpState ==
  [present |-> FALSE, activeConnectionIds |-> {}, tokens |-> 0,
   lastRefillAt |-> 0, lastSeenAt |-> 0]

refillTokens(rl, state, t) ==
  IF t <= state.lastRefillAt
  THEN state
  ELSE [state EXCEPT
          !.tokens = Min(bucketCapacity(rl),
                         @ + (t - state.lastRefillAt) * refillTokensPerTick(rl)),
          !.lastRefillAt = t]

\* deleteIfIdle without the test that no connection is active
deleteIfIdle_ActiveToo(rl, state, t) ==
  IF state.tokens >= bucketCapacity(rl) /\ t - state.lastSeenAt >= rl.idleStateTtlTicks
  THEN NoIpState
  ELSE state

\* The state after deleteIfIdle: NoIpState when the entry is deleted. The
\* limiter's field idleStateTtlTicks is IDLE_STATE_TTL_MS.
deleteIfIdle(rl, state, t) ==
  IF state.activeConnectionIds # {}
  THEN state
  ELSE IF state.tokens >= bucketCapacity(rl) /\ t - state.lastSeenAt >= rl.idleStateTtlTicks
       THEN NoIpState
       ELSE state

cleanupOldAttempts(rl, t) ==
  [rl EXCEPT
     !.stateByIp = [ip \in IPs |->
                      IF rl.stateByIp[ip].present
                      THEN deleteIfIdle(rl, refillTokens(rl, rl.stateByIp[ip], t), t)
                      ELSE NoIpState],
     !.nextCleanupAt = t + CleanupIntervalTicks]

rlMaybeCleanup(rl, t) ==
  IF t < rl.nextCleanupAt THEN rl ELSE cleanupOldAttempts(rl, t)

getOrCreateState(rl, ip, t) ==
  IF rl.stateByIp[ip].present
  THEN rl
  ELSE [rl EXCEPT !.stateByIp[ip] =
          [present |-> TRUE, activeConnectionIds |-> {}, tokens |-> bucketCapacity(rl),
           lastRefillAt |-> t, lastSeenAt |-> t]]

\* checkConnectionAllowed without the concurrent gate.
rlCheckConnectionAllowed_NoConcurrentGate(rl, ip, t) ==
  LET rl1 == getOrCreateState(rlMaybeCleanup(rl, t), ip, t)
      state == [refillTokens(rl, rl1.stateByIp[ip], t) EXCEPT !.lastSeenAt = t]
  IN [rl |-> [rl1 EXCEPT !.stateByIp[ip] = state],
      allowed |-> state.tokens >= OneToken]

\* checkConnectionAllowed that takes the token it finds.
rlCheckConnectionAllowed_Consuming(rl, ip, t) ==
  LET rl1 == getOrCreateState(rlMaybeCleanup(rl, t), ip, t)
      state == [refillTokens(rl, rl1.stateByIp[ip], t) EXCEPT !.lastSeenAt = t]
      allowed == IF Cardinality(state.activeConnectionIds) >= rl.maxConnPerIp
                 THEN FALSE
                 ELSE state.tokens >= OneToken
  IN [rl |-> [rl1 EXCEPT !.stateByIp[ip] =
                [state EXCEPT !.tokens = IF allowed THEN @ - OneToken ELSE @]],
      allowed |-> allowed]

\* ConnectionRateLimiter.checkConnectionAllowed: the limiter after the call
\* and the answer.
rlCheckConnectionAllowed(rl, ip, t) ==
  LET rl1 == getOrCreateState(rlMaybeCleanup(rl, t), ip, t)
      state == [refillTokens(rl, rl1.stateByIp[ip], t) EXCEPT !.lastSeenAt = t]
  IN [rl |-> [rl1 EXCEPT !.stateByIp[ip] = state],
      allowed |-> IF Cardinality(state.activeConnectionIds) >= rl.maxConnPerIp
                  THEN FALSE
                  ELSE state.tokens >= OneToken]

rlRegisterConnection_NoConsume(rl, ip, connId, t) ==
  LET rl1 == getOrCreateState(rlMaybeCleanup(rl, t), ip, t)
      state == refillTokens(rl, rl1.stateByIp[ip], t)
  IN IF connId \in state.activeConnectionIds
     THEN [rl1 EXCEPT !.stateByIp[ip] = [state EXCEPT !.lastSeenAt = t]]
     ELSE [rl1 EXCEPT !.stateByIp[ip] =
             [state EXCEPT !.activeConnectionIds = @ \cup {connId},
                           !.lastSeenAt = t]]

rlRegisterConnection(rl, ip, connId, t) ==
  LET rl1 == getOrCreateState(rlMaybeCleanup(rl, t), ip, t)
      state == refillTokens(rl, rl1.stateByIp[ip], t)
  IN IF connId \in state.activeConnectionIds
     THEN [rl1 EXCEPT !.stateByIp[ip] = [state EXCEPT !.lastSeenAt = t]]
     ELSE [rl1 EXCEPT !.stateByIp[ip] =
             [state EXCEPT
                !.activeConnectionIds = @ \cup {connId},
                !.tokens = IF state.tokens >= OneToken
                           THEN Max(0, state.tokens - OneToken)
                           ELSE 0,
                !.lastSeenAt = t]]

rlUnregisterConnection(rl, ip, connId, t) ==
  LET rl1 == rlMaybeCleanup(rl, t)
      state == rl1.stateByIp[ip]
  IN IF ~state.present
     THEN rl1
     ELSE [rl1 EXCEPT !.stateByIp[ip] =
             deleteIfIdle(
               rl,
               IF connId \in state.activeConnectionIds
               THEN [state EXCEPT !.activeConnectionIds = @ \ {connId},
                                  !.lastSeenAt = t]
               ELSE state,
               t)]

CeilDiv(a, b) == (a + b - 1) \div b

getRetryAfterSeconds_NoConcurrentBranch(rl, ip, t) ==
  LET rl1 == rlMaybeCleanup(rl, t)
  IN IF ~rl1.stateByIp[ip].present
     THEN [rl |-> rl1, seconds |-> 1]
     ELSE LET state == refillTokens(rl, rl1.stateByIp[ip], t)
              rl2 == [rl1 EXCEPT !.stateByIp[ip] = state]
              missingTokens == Max(0, OneToken - state.tokens)
          IN IF state.tokens >= OneToken
             THEN [rl |-> rl2, seconds |-> 1]
             ELSE [rl |-> rl2,
                   seconds |-> Max(1, CeilDiv(Max(refillTokensPerTick(rl),
                                                  missingTokens * TickSeconds),
                                              refillTokensPerTick(rl)))]

\* getRetryAfterSeconds: the limiter after the call and the seconds returned.
\* The time to refill the missing tokens is missing / refillTokensPerTick
\* ticks; it is bounded below by one second and rounded up to whole seconds.
getRetryAfterSeconds(rl, ip, t) ==
  LET rl1 == rlMaybeCleanup(rl, t)
  IN IF ~rl1.stateByIp[ip].present
     THEN [rl |-> rl1, seconds |-> 1]
     ELSE LET state == refillTokens(rl, rl1.stateByIp[ip], t)
              rl2 == [rl1 EXCEPT !.stateByIp[ip] = state]
              missingTokens == Max(0, OneToken - state.tokens)
          IN IF Cardinality(state.activeConnectionIds) >= rl.maxConnPerIp
             THEN [rl |-> rl2, seconds |-> CONCURRENT_LIMIT_RETRY_AFTER_SECONDS]
             ELSE IF state.tokens >= OneToken
             THEN [rl |-> rl2, seconds |-> 1]
             ELSE [rl |-> rl2,
                   seconds |-> Max(1, CeilDiv(Max(refillTokensPerTick(rl),
                                                  missingTokens * TickSeconds),
                                              refillTokensPerTick(rl)))]

\* rateLimitResponse: the value of the Retry-After header
rateLimitResponse(retryAfterSeconds) == Max(1, retryAfterSeconds)

\* ------------------------------------------------ UUIDConnectionManager
\* One identity is in play, so bucketsByUuid holds at most the one bucket
\* `bucket`. A bucket's byIp index is kept in step with byConnectionId by
\* every write of the code; it is read off byConnectionId here, the address
\* of a tracked connection being the address of its request.
NoBucket == [present |-> FALSE, byConnectionId |-> {}, lastTouchedAt |-> 0]

isEnabled == maxConnections > 0

byIp(w, bucket, ip) == {c \in bucket.byConnectionId : w.req[c].ip = ip}

evictIdleBucketsIfNeeded(um, t) ==
  IF (IF um.bucket.present THEN 1 ELSE 0) <= UUID_MAX_TRACKED_BUCKETS
  THEN um
  ELSE IF um.bucket.byConnectionId = {}
          /\ t - um.bucket.lastTouchedAt >= UuidIdleBucketTtlTicks
       THEN [um EXCEPT !.bucket = NoBucket]
       ELSE um

\* cleanup. No tracked connection reaches UUID_ENTRY_STALE_MS (seven days)
\* within MaxTime ticks, so staleConnectionIds is empty in every run.
cleanup(um, t) ==
  LET um1 == IF um.bucket.present /\ um.bucket.byConnectionId = {}
                /\ t - um.bucket.lastTouchedAt >= UuidIdleBucketTtlTicks
             THEN [um EXCEPT !.bucket = NoBucket]
             ELSE um
  IN [evictIdleBucketsIfNeeded(um1, t) EXCEPT
        !.nextCleanupAt = t + UuidCleanupIntervalTicks]

maybeCleanup(um, t) ==
  IF t < um.nextCleanupAt THEN um ELSE cleanup(um, t)

\* UUIDConnectionManager.checkConnectionAllowed: the manager after the call
\* and the answer.
checkConnectionAllowed(w, ip, t) ==
  IF ~isEnabled
  THEN [um |-> w.um, allowed |-> TRUE]
  ELSE LET um1 == maybeCleanup(w.um, t)
       IN IF ~um1.bucket.present
          THEN [um |-> um1, allowed |-> TRUE]
          ELSE [um |-> [um1 EXCEPT !.bucket.lastTouchedAt = t],
                allowed |-> \/ Cardinality(um1.bucket.byConnectionId) < maxConnections
                            \/ byIp(w, um1.bucket, ip) # {}]

\* removeConnection(uuid, bucket, connectionId, false), bucket being the one
\* of the map.
removeConnectionQuietly(um, connectionId) ==
  IF connectionId \notin um.bucket.byConnectionId
  THEN [um EXCEPT !.uuidByConnectionId = @ \ {connectionId}]
  ELSE LET um1 == [um EXCEPT !.bucket.byConnectionId = @ \ {connectionId},
                             !.uuidByConnectionId = @ \ {connectionId}]
       IN IF um1.bucket.byConnectionId = {}
          THEN [um1 EXCEPT !.bucket = NoBucket]
          ELSE um1

unregisterConnection(um, connectionId, t) ==
  IF ~isEnabled
  THEN um
  ELSE LET um1 == maybeCleanup(um, t)
       IN IF ~um1.bucket.present
          THEN [um1 EXCEPT !.uuidByConnectionId = @ \ {connectionId}]
          ELSE LET um2 == removeConnectionQuietly(um1, connectionId)
               IN \* bucket.lastTouchedAt = now is written to the bucket object;
                  \* the map loses the bucket when it is empty
                  IF um2.bucket.present /\ um2.bucket.byConnectionId # {}
                  THEN [um2 EXCEPT !.bucket.lastTouchedAt = t]
                  ELSE [um2 EXCEPT !.bucket = NoBucket]

\* ------------------------------------------- fetch: release and bridge
\* The closure unregisterRateLimitConnection of fetch (undefined until the
\* request is registered with the limiter).
unregisterRateLimitConnection(w, r, t) ==
  IF w.req[r].registerCalls = 0 \/ w.req[r].released
  THEN w
  ELSE [w EXCEPT !.req[r].released = TRUE,
                 !.req[r].unregisterCalls = @ + 1,
                 !.rl = rlUnregisterConnection(w.rl, w.req[r].ip, r, t)]

\* The closure unregisterUuidConnection of fetch (undefined until
\* onConnectionReady has run).
unregisterUuidConnection(w, r, t) ==
  IF ~w.req[r].uuidReady \/ w.req[r].uuidReleased
  THEN w
  ELSE [w EXCEPT !.req[r].uuidReleased = TRUE,
                 !.um = unregisterConnection(w.um, r, t)]

releaseTrackedConnection(w, r, t) ==
  unregisterUuidConnection(unregisterRateLimitConnection(w, r, t), r, t)

\* closeBoth of the bridge of request r: nothing when already closed, else
\* both sockets are closed with the code and onClosed (the release) runs.
closeBoth(w, r, code, t) ==
  IF ~w.req[r].bridged
  THEN w
  ELSE releaseTrackedConnection(
         [w EXCEPT !.req[r].bridged = FALSE, !.req[r].closeCode = code], r, t)

\* removeConnection without its disconnect callback.
removeConnection_NoDisconnect(w, connectionId, closeCode, t) ==
  IF connectionId \notin w.um.bucket.byConnectionId
  THEN [w EXCEPT !.um.uuidByConnectionId = @ \ {connectionId}]
  ELSE [w EXCEPT !.um.bucket.byConnectionId = @ \ {connectionId},
                 !.um.uuidByConnectionId = @ \ {connectionId}]

\* removeConnection(uuid, bucket, connectionId, true, closeCode, reason, true)
\* as registerConnection calls it: the tracked disconnect callback is the
\* bridge's closeBoth, which re-enters the manager through the release.
removeConnection(w, connectionId, closeCode, t) ==
  IF connectionId \notin w.um.bucket.byConnectionId
  THEN [w EXCEPT !.um.uuidByConnectionId = @ \ {connectionId}]
  ELSE closeBoth(
         [w EXCEPT !.um.bucket.byConnectionId = @ \ {connectionId},
                   !.um.uuidByConnectionId = @ \ {connectionId},
                   !.req[connectionId].disconnectCalls = @ + 1,
                   !.req[connectionId].disconnectCode = closeCode],
         connectionId, closeCode, t)

RECURSIVE replaceSameIpConnections(_, _, _)
replaceSameIpConnections(w, ids, t) ==
  IF ids = {}
  THEN w
  ELSE LET c == CHOOSE x \in ids : TRUE
       IN replaceSameIpConnections(
            removeConnection(w, c, UUID_REPLACED_CLOSE_CODE, t), ids \ {c}, t)

\* UUIDConnectionManager.registerConnection(uuid, ip, r, disconnect). The
\* local variable `bucket` is the object getOrCreateBucket returned. A
\* replaced session's teardown can delete that object from bucketsByUuid
\* (unregisterConnection on the bucket it has just emptied); this happens
\* only once the bucket is empty, so every removal of the loop still finds
\* the object in the map, and afterwards the local object is either the
\* map's bucket or an empty bucket no map entry refers to.
registerConnection(w, r, t) ==
  IF ~isEnabled
  THEN w
  ELSE
  LET ip == w.req[r].ip
      um0 == maybeCleanup(w.um, t)
      w1 == [w EXCEPT !.um =
               [um0 EXCEPT !.bucket =
                  IF um0.bucket.present
                  THEN [um0.bucket EXCEPT !.lastTouchedAt = t]
                  ELSE [present |-> TRUE, byConnectionId |-> {},
                        lastTouchedAt |-> t]]]
      w2 == replaceSameIpConnections(w1, byIp(w1, w1.um.bucket, ip), t)
      inMap == w2.um.bucket.present
      bucket == IF inMap THEN w2.um.bucket
                ELSE [present |-> TRUE, byConnectionId |-> {}, lastTouchedAt |-> t]
  IN IF Cardinality(bucket.byConnectionId) >= maxConnections
        /\ byIp(w2, bucket, ip) = {}
     THEN w2
     ELSE LET w3 == IF r \in w2.um.uuidByConnectionId
                    THEN [w2 EXCEPT !.um = removeConnectionQuietly(w2.um, r)]
                    ELSE w2
              w4 == IF inMap /\ w3.um.bucket.present
                    THEN [w3 EXCEPT !.um.bucket.byConnectionId = @ \cup {r},
                                    !.um.bucket.lastTouchedAt = t,
                                    !.um.uuidByConnectionId = @ \cup {r}]
                    ELSE [w3 EXCEPT !.um.uuidByConnectionId = @ \cup {r}]
          IN [w4 EXCEPT !.um = evictIdleBucketsIfNeeded(w4.um, t)]

\* onConnectionReady of fetch.
onConnectionReady(w, r, t) ==
  IF w.req[r].uuidReady
  THEN w
  ELSE [registerConnection(w, r, t) EXCEPT !.req[r].uuidReady = TRUE]

\* ---------------------------------------------------------- fetch steps
World == [rl |-> rateLimiter, um |-> uuidManager, req |-> req]

SetWorld(w) ==
  /\ rateLimiter' = w.rl
  /\ uuidManager' = w.um
  /\ req' = w.req

NewRequest ==
  [pc |-> "new", ip |-> 0, status |-> 0, bridged |-> FALSE,
   registerCalls |-> 0, unregisterCalls |-> 0, released |-> FALSE,
   uuidReady |-> FALSE, uuidReleased |-> FALSE,
   disconnectCalls |-> 0, disconnectCode |-> 0, closeCode |-> 0,
   retryAfter |-> 0, registeredAt |-> 0]

\* fetch up to the call of handleWithBackendFailover: the identity check,
\* then the rate limiter's check and registration, with no await between.
FetchAdmission(r, ip) ==
  /\ req[r].pc = "new"
  /\ IF r = 1 THEN TRUE ELSE req[r - 1].pc # "new"
  /\ LET w0 == [World EXCEPT !.req[r].ip = ip]
         uuidCheck == checkConnectionAllowed(w0, ip, now)
         w1 == [w0 EXCEPT !.um = uuidCheck.um]
         rlCheck == rlCheckConnectionAllowed(w1.rl, ip, now)
     IN IF ~uuidCheck.allowed
        THEN SetWorld([w1 EXCEPT !.req[r].pc = "returned", !.req[r].status = 403])
        ELSE IF ~rlCheck.allowed
             THEN LET retry == getRetryAfterSeconds(rlCheck.rl, ip, now)
                  IN SetWorld([w1 EXCEPT
                                 !.rl = retry.rl,
                                 !.req[r].retryAfter = rateLimitResponse(retry.seconds),
                                 !.req[r].pc = "returned", !.req[r].status = 429])
             ELSE SetWorld([w1 EXCEPT
                              !.rl = rlRegisterConnection(rlCheck.rl, ip, r, now),
                              !.req[r].registerCalls = @ + 1,
                              !.req[r].registeredAt = now,
                              !.req[r].pc = "handler"])
  /\ UNCHANGED <<now, poolVars, restVars>>

\* The handler bridged the sockets (bridgeSockets calls onReady before it
\* returns) and the response is 101 with the client socket.
FetchBridged(r) ==
  /\ req[r].pc = "handler"
  /\ SetWorld(onConnectionReady(
                [World EXCEPT !.req[r].bridged = TRUE, !.req[r].status = 101,
                              !.req[r].pc = "returned"], r, now))
  /\ UNCHANGED <<now, poolVars, restVars>>

\* What handleWithBackendFailover returns without a bridge: the upstream's
\* own response, of any status, when the ws / xhttp handler forwards the
\* request as a plain one (its Upgrade value is not websocket), or the 502
\* of a failed upgrade. fetch only tells 101 from the other statuses; 502
\* stands for those.
UnbridgedStatuses == {101, 502}

FetchReturns(r, status) ==
  /\ req[r].pc = "handler"
  /\ LET w1 == [World EXCEPT !.req[r].status = status, !.req[r].pc = "returned"]
     IN SetWorld(IF status # 101 THEN releaseTrackedConnection(w1, r, now) ELSE w1)
  /\ UNCHANGED <<now, poolVars, restVars>>

\* handleWithBackendFailover throws: the catch block of fetch.
FetchThrows(r) ==
  /\ req[r].pc = "handler"
  /\ SetWorld(releaseTrackedConnection(
                [World EXCEPT !.req[r].status = 502, !.req[r].pc = "returned"],
                r, now))
  /\ UNCHANGED <<now, poolVars, restVars>>

\* A close or error event of either socket of an open bridge.
BridgeClosed(r, code) ==
  /\ req[r].bridged
  /\ SetWorld(closeBoth(World, r, code, now))
  /\ UNCHANGED <<now, poolVars, restVars>>

InitAdmit ==
  /\ rateLimiter \in {[stateByIp |-> [ip \in IPs |-> NoIpState],
                      nextCleanupAt |-> 0 + CleanupIntervalTicks,
                      maxConnPerIp |-> Max(1, m),
                      maxConnPerMin |-> Max(1, perMin),
                      idleStateTtlTicks |-> IdleStateTtlTicks] :
                        m \in ConfiguredMaxConnPerIp,
                        perMin \in ConfiguredMaxConnPerMin}
  /\ uuidManager = [bucket |-> NoBucket, uuidByConnectionId |-> {},
                    nextCleanupAt |-> 0 + UuidCleanupIntervalTicks]
  /\ req = [r \in Reqs |-> NewRequest]

NextAdmit ==
  \/ Tick
  \/ \E r \in Reqs, ip \in IPs : FetchAdmission(r, ip)
  \/ \E r \in Reqs : FetchBridged(r)
  \/ \E r \in Reqs, status \in UnbridgedStatuses : FetchReturns(r, status)
  \/ \E r \in Reqs : FetchThrows(r)
  \/ \E r \in Reqs, code \in CloseCodes : BridgeClosed(r, code)

\* ------------------------------------------------------- socket bridge
\* One bridgeSockets call, as the ws / xhttp / httpupgrade handlers make it:
\* both sockets are accepted and open, and onClosed (fetch's
\* releaseTrackedConnection) and onReady are supplied.  The relay-error callback
\* the handlers pass only logs; the bridge as a function takes any callback,
\* and onRelayErrorThrows / onClosedThrows say whether the ones it was given
\* throw.  escaped records an exception that left the bridge's code for the
\* event dispatcher (or as an unhandled rejection).
Sides == {"client", "backend"}
Peer(side) == IF side = "client" THEN "backend" ELSE "client"

\* WebSocketPayload: string | ArrayBuffer / ArrayBufferView | Blob
PayloadKinds == {"string", "binary", "blob"}

\* codes of the close events the sockets deliver (1006: abnormal closure)
CloseEventCodes == {1000, 1006}
RELAY_FAILURE_CLOSE_CODE == 1011

WS_OPEN == 1
WS_CLOSING == 2
WS_CLOSED == 3

sanitizeCloseCode(code) ==
  IF code >= 1000 /\ code <= 4999 /\ code # 1005 /\ code # 1006
  THEN code
  ELSE 1011

\* safeClose: socket.close(code, reason), and socket.close() when that throws:
\* either way the socket is closed by this call once.
safeClose(b, side, code) ==
  [b EXCEPT !.closeCalls[side] = @ + 1,
            !.closeCode[side] = sanitizeCloseCode(code),
            !.readyState[side] = IF @ = WS_OPEN THEN WS_CLOSING ELSE @]

closeSocketPair(b, code) == safeClose(safeClose(b, "client", code), "backend", code)

cleanupListeners(b) == [b EXCEPT !.listening = FALSE]

bridgeCloseBoth_NoGuard(b, code) ==
  LET closing == [b EXCEPT !.closed = TRUE,
                           !.state = [s \in Sides |->
                                        IF b.state[s] = "closed" THEN "closed" ELSE "closing"]]
      shut == [closeSocketPair(cleanupListeners(closing), code)
                 EXCEPT !.state = [s \in Sides |-> "closed"]]
  IN IF ~shut.onClosedNotified
     THEN [shut EXCEPT !.onClosedNotified = TRUE, !.onClosedCalls = @ + 1]
     ELSE shut

\* bridgeSockets.closeBoth
bridgeCloseBoth(b, code) ==
  IF b.closed
  THEN b
  ELSE LET closing == [b EXCEPT !.closed = TRUE,
                                !.state = [s \in Sides |->
                                             IF b.state[s] = "closed" THEN "closed"
                                                                      ELSE "closing"]]
           shut == [closeSocketPair(cleanupListeners(closing), code)
                      EXCEPT !.state = [s \in Sides |-> "closed"]]
       \* try { onClosed() } catch {}: the call counts whether or not it throws
       IN IF ~shut.onClosedNotified
          THEN [shut EXCEPT !.onClosedNotified = TRUE, !.onClosedCalls = @ + 1]
          ELSE shut

\* onRelayError(direction, error) followed by closeBoth(code, reason), as
\* onForwardFailure and the error handlers run them: the callback is called
\* outside any try block, so when it throws closeBoth is not reached.
relayErrorThenClose(b, code) ==
  IF b.onRelayErrorThrows
  THEN [b EXCEPT !.escaped = TRUE]
  ELSE bridgeCloseBoth(b, code)

\* history: one more event that asks for the teardown (counted up to 2)
NoteTrigger(b) == [b EXCEPT !.triggers = IF @ >= 2 THEN 2 ELSE @ + 1]

onForwardFailure(b) == relayErrorThenClose(NoteTrigger(b), RELAY_FAILURE_CLOSE_CODE)

\* destination.send(payload) returning normally: the payload, the n-th received
\* from the other side, goes out on the destination socket
send(b, destination, n, kind) ==
  [b EXCEPT !.sent[destination] = Append(@, [n |-> n, kind |-> kind])]

\* bridgeSockets.forward for the n-th payload received from `from`
forward(b, from, n, kind, sendThrows) ==
  LET destination == Peer(from)
  IN IF kind = "blob"
     THEN [b EXCEPT !.pending = @ \cup {[from |-> from, n |-> n]}]
     ELSE IF b.closed \/ b.readyState[destination] # WS_OPEN
     THEN b
     ELSE IF sendThrows
     THEN onForwardFailure(b)
     ELSE send(b, destination, n, kind)

\* onClientMessage / onBackendMessage: a message event of an open socket
OnMessage(side, kind, sendThrows) ==
  /\ bridge.listening
  /\ bridge.readyState[side] = WS_OPEN
  /\ Len(bridge.received[side]) < MaxMsgs
  /\ bridge' = forward([bridge EXCEPT !.received[side] = Append(@, kind)],
                       side, Len(bridge.received[side]) + 1, kind, sendThrows)
  /\ UNCHANGED notBridgeVars

BlobOutcomes == {"resolved", "sendThrows", "rejected"}

\* the .then continuation without its test of closed
BlobSettled_NoClosedCheck(from, n, outcome) ==
  /\ [from |-> from, n |-> n] \in bridge.pending
  /\ LET destination == Peer(from)
         b == [bridge EXCEPT !.pending = @ \ {[from |-> from, n |-> n]}]
     IN bridge' = IF outcome = "rejected"
                  THEN onForwardFailure(b)
                  ELSE IF outcome = "sendThrows"
                  THEN onForwardFailure(b)
                  ELSE send(b, destination, n, "binary")
  /\ UNCHANGED notBridgeVars

\* payload.arrayBuffer() settles: the .then / .catch continuations of forward.
\* send on a socket that is no longer open throws or discards the payload,
\* as the platform decides. settledAfterClose notes a .then continuation that
\* found the bridge closed.
BlobSettled(from, n, outcome) ==
  /\ [from |-> from, n |-> n] \in bridge.pending
  /\ LET destination == Peer(from)
         b == [bridge EXCEPT !.pending = @ \ {[from |-> from, n |-> n]}]
     IN bridge' = IF outcome = "rejected"
                  THEN onForwardFailure(b)
                  ELSE IF b.closed
                  THEN [b EXCEPT !.settledAfterClose = TRUE]
                  ELSE IF outcome = "sendThrows"
                  THEN onForwardFailure(b)
                  ELSE IF b.readyState[destination] # WS_OPEN
                  THEN b
                  ELSE send(b, destination, n, "binary")
  /\ UNCHANGED notBridgeVars

\* onClientClose / onBackendClose: the socket's close event
OnClose(side, code) ==
  /\ bridge.listening
  /\ bridge' = bridgeCloseBoth(
                 NoteTrigger([bridge EXCEPT !.readyState[side] = WS_CLOSED,
                                            !.state[side] = "closed"]),
                 code)
  /\ UNCHANGED notBridgeVars

\* onClientError / onBackendError
OnError(side) ==
  /\ bridge.listening
  /\ bridge' = relayErrorThenClose(NoteTrigger([bridge EXCEPT !.state[side] = "errored"]),
                                   RELAY_FAILURE_CLOSE_CODE)
  /\ UNCHANGED notBridgeVars

\* The peer of a socket starts the closing handshake: the socket leaves the
\* open state before its close event is dispatched to the bridge.
SocketLeavesOpen(side) ==
  /\ ~bridge.closed
  /\ bridge.readyState[side] = WS_OPEN
  /\ bridge' = [bridge EXCEPT !.readyState[side] = WS_CLOSING]
  /\ UNCHANGED notBridgeVars

\* the disconnector handed to onReady is called (by the identity manager)
Disconnect(code) ==
  /\ bridge' = bridgeCloseBoth(NoteTrigger(bridge), code)
  /\ UNCHANGED notBridgeVars

NewBridge ==
  [closed |-> FALSE,
   onClosedNotified |-> FALSE,
   listening |-> TRUE,
   state |-> [s \in Sides |-> "open"],
   readyState |-> [s \in Sides |-> WS_OPEN],
   closeCalls |-> [s \in Sides |-> 0],
   closeCode |-> [s \in Sides |-> 0],
   onClosedCalls |-> 0,
   triggers |-> 0,
   received |-> [s \in Sides |-> <<>>],
   sent |-> [s \in Sides |-> <<>>],
   pending |-> {},
   onRelayErrorThrows |-> FALSE,
   onClosedThrows |-> FALSE,
   escaped |-> FALSE,
   settledAfterClose |-> FALSE]

InitBridge == bridge = NewBridge

NextBridge ==
  \/ \E side \in Sides, kind \in PayloadKinds, sendThrows \in BOOLEAN :
        OnMessage(side, kind, sendThrows)
  \/ \E from \in Sides, n \in 1..MaxMsgs, outcome \in BlobOutcomes :
        BlobSettled(from, n, outcome)
  \/ \E side \in Sides, code \in CloseEventCodes : OnClose(side, code)
  \/ \E side \in Sides : OnError(side)
  \/ \E side \in Sides : SocketLeavesOpen(side)
  \/ Disconnect(UUID_REPLACED_CLOSE_CODE)

\* --------------------------------------------------- subscription cache
\* Sizes are counted in units of DEFAULT_ENTRY_SIZE_BYTES; the caps of the
\* constructor (its defaults: getCache passes the TTL only) are scaled down.
\* SUBSCRIPTION_CACHE_TTL_MS is one minute.
SubReqs == {1, 2, 3}
SubKeys == {1, 2, 3}
\* the query string of the request URL, which buildSubscriptionBackendUrl
\* copies to the upstream URL
Searches == {"", "?flag=1"}
DEFAULT_MAX_CACHE_ENTRIES == 2
DEFAULT_MAX_CACHE_BYTES == 3
DEFAULT_ENTRY_SIZE_BYTES == 1
CacheCleanupIntervalTicks == 1
ttlTicks == 2
maxEntries == Max(1, DEFAULT_MAX_CACHE_ENTRIES)
maxBytes == Max(DEFAULT_ENTRY_SIZE_BYTES, DEFAULT_MAX_CACHE_BYTES)

\* The responses handleSubscriptionRequest gets from proxySubscriptionRequest
\* and the link transform: the upstream's status (200, or another one, which is
\* handled like the 502 of a failed or oversized fetch); content-length is
\* always set, to the length of the body, which the link transform can make
\* longer than the bytes read.
UpstreamStatuses == {200, 502}
ContentLengths == {1, 2, 4}

NoResponse == [status |-> 0, contentLength |-> 0, fetchedBy |-> 0]

estimateResponseSize(response) == response.contentLength

RemoveAt(list, i) == SubSeq(list, 1, i - 1) \o SubSeq(list, i + 1, Len(list))

\* position of the node nodesByKey holds for key in the list, 0 when
\* nodesByKey has none
NodeOf(c, key) ==
  IF key \in c.nodesByKey /\ \E i \in 1..Len(c.list) : c.list[i].key = key
  THEN CHOOSE i \in 1..Len(c.list) : c.list[i].key = key
  ELSE 0

\* removeNode (detach, nodesByKey.delete, totalBytes) of the node at position i
removeNode(c, i) ==
  [c EXCEPT !.list = RemoveAt(@, i),
            !.nodesByKey = @ \ {c.list[i].key},
            !.totalBytes = Max(0, @ - c.list[i].entry.sizeBytes)]

insertAtHead(c, node) == [c EXCEPT !.list = <<node>> \o @]

moveToHead_Stay(c, i) == c

\* detach and insertAtHead of the node at position i
moveToHead(c, i) ==
  IF i = 1 THEN c ELSE [c EXCEPT !.list = <<c.list[i]>> \o RemoveAt(c.list, i)]

evictIfNeeded_EntriesOnly(c) ==
  IF Cardinality(c.nodesByKey) > maxEntries /\ Len(c.list) > 0
  THEN removeNode(c, Len(c.list))
  ELSE c

RECURSIVE evictIfNeeded(_)
evictIfNeeded(c) ==
  IF (Cardinality(c.nodesByKey) > maxEntries \/ c.totalBytes > maxBytes)
     /\ Len(c.list) > 0
  THEN evictIfNeeded(removeNode(c, Len(c.list)))
  ELSE c

\* the loop of cleanup from the tail: every expired entry is removed
RemoveExpired(c, t) ==
  LET kept == SelectSeq(c.list, LAMBDA node : node.entry.expiresAt > t)
      RECURSIVE Sum(_)
      Sum(list) == IF list = <<>> THEN 0
                   ELSE list[1].entry.sizeBytes + Sum(Tail(list))
  IN [c EXCEPT !.list = kept,
               !.nodesByKey = {kept[i].key : i \in 1..Len(kept)},
               !.totalBytes = Max(0, @ - (Sum(c.list) - Sum(kept)))]

cacheCleanup(c, t) ==
  [evictIfNeeded(RemoveExpired(c, t))
     EXCEPT !.nextCleanupAt = t + Min(ttlTicks, CacheCleanupIntervalTicks)]

cacheMaybeCleanup(c, t) ==
  IF t < c.nextCleanupAt THEN c ELSE cacheCleanup(c, t)

\* SubscriptionCache.get: the cache after the call and the response returned
\* (NoResponse for null)
cacheGet(c, key, t) ==
  LET c1 == cacheMaybeCleanup(c, t)
      i == NodeOf(c1, key)
  IN IF i = 0
     THEN [cache |-> c1, response |-> NoResponse]
     ELSE IF c1.list[i].entry.expiresAt <= t
     THEN [cache |-> removeNode(c1, i), response |-> NoResponse]
     ELSE [cache |-> moveToHead(c1, i), response |-> c1.list[i].entry.response]

cacheSet_LongerTtl(c, key, response, t) ==
  IF response.status # 200
  THEN c
  ELSE LET c1 == cacheMaybeCleanup(c, t)
           sizeBytes == estimateResponseSize(response)
           i == NodeOf(c1, key)
           c2 == IF i # 0 THEN removeNode(c1, i) ELSE c1
           node == [key |-> key,
                    entry |-> [expiresAt |-> t + ttlTicks + 1,
                               response |-> response,
                               sizeBytes |-> sizeBytes]]
       IN IF sizeBytes > maxBytes
          THEN c2
          ELSE evictIfNeeded([insertAtHead(c2, node) EXCEPT
                                !.nodesByKey = @ \cup {key},
                                !.totalBytes = @ + sizeBytes])

\* SubscriptionCache.set
cacheSet(c, key, response, t) ==
  IF response.status # 200
  THEN c
  ELSE LET c1 == cacheMaybeCleanup(c, t)
           sizeBytes == estimateResponseSize(response)
           i == NodeOf(c1, key)
           c2 == IF i # 0 THEN removeNode(c1, i) ELSE c1
           node == [key |-> key,
                    entry |-> [expiresAt |-> t + ttlTicks,
                               response |-> response,
                               sizeBytes |-> sizeBytes]]
       IN IF sizeBytes > maxBytes
          THEN c2
          ELSE evictIfNeeded([insertAtHead(c2, node) EXCEPT
                                !.nodesByKey = @ \cup {key},
                                !.totalBytes = @ + sizeBytes])

\* handleSubscriptionRequest up to its first await: the cache lookup; a hit is
\* returned, a miss starts the upstream fetch of proxySubscriptionRequest.
SubStart(r, key, search) ==
  /\ sub[r].pc = "new"
  \* the query strings are interchangeable: the first request has the empty one
  /\ r = 1 => search = ""
  /\ IF r = 1 THEN TRUE ELSE sub[r - 1].pc # "new"
  /\ LET got == cacheGet(subscriptionCache, key, now)
     IN /\ subscriptionCache' = got.cache
        /\ sub' = [sub EXCEPT ![r] =
                     IF got.response # NoResponse
                     THEN [@ EXCEPT !.pc = "done", !.key = key, !.search = search,
                                    !.startedAt = now,
                                    !.from = "cache", !.response = got.response]
                     ELSE [@ EXCEPT !.pc = "fetching", !.key = key, !.search = search,
                                    !.startedAt = now]]
  /\ UNCHANGED <<now, stored, notCacheVars>>

\* the rest of handleSubscriptionRequest: the proxied (and transformed)
\* response arrives, is stored when its status is 200, and is returned.
SubUpstream(r, status, contentLength) ==
  /\ sub[r].pc = "fetching"
  /\ LET response == [status |-> status, contentLength |-> contentLength,
                      fetchedBy |-> r]
         cached == IF status = 200
                   THEN cacheSet(subscriptionCache, sub[r].key, response, now)
                   ELSE subscriptionCache
     IN /\ subscriptionCache' = cached
        /\ stored' = IF NodeOf(cached, sub[r].key) # 0
                        /\ cached.list[NodeOf(cached, sub[r].key)].entry.response = response
                     THEN [stored EXCEPT ![sub[r].key] = @ \cup {now}]
                     ELSE stored
        /\ sub' = [sub EXCEPT ![r].pc = "done", ![r].from = "upstream",
                              ![r].response = response]
  /\ UNCHANGED <<now, notCacheVars>>

NewCache ==
  [list |-> <<>>, nodesByKey |-> {}, totalBytes |-> 0,
   nextCleanupAt |-> 0 + Min(ttlTicks, CacheCleanupIntervalTicks)]

\* the cache after two earlier requests (request 0 stands for them) stored
\* keys 1 and 2 at time 0
WarmCache ==
  cacheSet(cacheSet(NewCache, 1, [status |-> 200, contentLength |-> 1, fetchedBy |-> 0], 0),
           2, [status |-> 200, contentLength |-> 1, fetchedBy |-> 0], 0)

InitCache ==
  /\ subscriptionCache = NewCache
  /\ sub = [r \in SubReqs |->
              [pc |-> "new", key |-> 0, search |-> "", startedAt |-> 0, from |-> "none",
               response |-> NoResponse]]
  /\ stored = [key \in SubKeys |-> {}]

NextCache ==
  \/ \E r \in SubReqs, key \in SubKeys, search \in Searches : SubStart(r, key, search)
  \/ \E r \in SubReqs, status \in UpstreamStatuses, contentLength \in ContentLengths :
        SubUpstream(r, status, contentLength)
  \/ Tick

\* ------------------------------------------------- bounded body reader
\* readResponseBodyWithLimit and the answer proxySubscriptionRequest builds
\* from it. Sizes are scaled: the cap is four bytes, the initial buffer two.
MAX_RESPONSE_SIZE_BYTES == 4
INITIAL_READ_BUFFER_BYTES == 2

Bytes == {0, 1}
ChunkLengths == {0, 1, 2, 3}
Chunks == UNION {[1..n -> Bytes] : n \in ChunkLengths}
ChunkSeqs == UNION {[1..n -> Chunks] : n \in 0..MaxChunks}

\* parseContentLength: null when the header is absent or not a length
NoContentLength == -1
ContentLengthHeaders == {NoContentLength} \cup (0..(MAX_RESPONSE_SIZE_BYTES + 1))

\* The upstream responses: a response without a body stream has no chunks.
UpstreamResponses ==
  {[contentLength |-> cl, hasBody |-> hb, chunks |-> cs] :
     cl \in ContentLengthHeaders, hb \in BOOLEAN, cs \in ChunkSeqs}
  \ {resp \in [contentLength : ContentLengthHeaders, hasBody : {FALSE},
               chunks : ChunkSeqs] : resp.chunks # <<>>}

RECURSIVE BodyOf(_)
BodyOf(chunks) ==
  IF chunks = <<>> THEN <<>> ELSE Head(chunks) \o BodyOf(Tail(chunks))

\* new Uint8Array(n)
Zeros(n) == [i \in 1..n |-> 0]

\* TypedArray.set(data, offset)
SetAt(buffer, data, offset) ==
  [i \in 1..Len(buffer) |->
     IF i > offset /\ i <= offset + Len(data) THEN data[i - offset]
                                                ELSE buffer[i]]

RECURSIVE growCapacity_Uncapped(_, _, _)
growCapacity_Uncapped(nextCapacity, required, limit) ==
  IF nextCapacity < required
  THEN growCapacity_Uncapped(nextCapacity * 2, required, limit)
  ELSE nextCapacity

\* the loop that doubles nextCapacity
RECURSIVE growCapacity(_, _, _)
growCapacity(nextCapacity, required, limit) ==
  IF nextCapacity < required /\ nextCapacity < limit
  THEN growCapacity(Min(limit, nextCapacity * 2), required, limit)
  ELSE nextCapacity

NoRead ==
  [phase |-> "idle",
   response |-> [contentLength |-> NoContentLength, hasBody |-> FALSE,
                 chunks |-> <<>>],
   next |-> 1, buffer |-> <<>>, totalLength |-> 0, result |-> <<>>,
   answer |-> [status |-> 0, text |-> "", contentLength |-> 0]]

\* readResponseBodyWithLimit up to its first reader.read()
readStart(response, limit) ==
  LET rd == [NoRead EXCEPT !.response = response]
      contentLength == response.contentLength
  IN IF contentLength # NoContentLength /\ contentLength > limit
     THEN [rd EXCEPT !.phase = "thrown"]
     ELSE IF contentLength = 0
     THEN [rd EXCEPT !.phase = "returned", !.result = <<>>]
     ELSE IF ~response.hasBody
     THEN [rd EXCEPT !.phase = "returned", !.result = <<>>]
     ELSE [rd EXCEPT
             !.phase = "reading",
             !.buffer = Zeros(Max(1, Min(limit,
                                         IF contentLength = NoContentLength
                                         THEN INITIAL_READ_BUFFER_BYTES
                                         ELSE contentLength)))]

\* one turn of the read loop on a chunk
readChunk(rd, chunk, limit) ==
  LET totalLength == rd.totalLength + Len(chunk)
      required == totalLength
      nextCapacity == growCapacity(Len(rd.buffer), required, limit)
      nextBuffer == SetAt(Zeros(nextCapacity),
                          SubSeq(rd.buffer, 1, rd.totalLength), 0)
  IN IF totalLength > limit
     THEN [rd EXCEPT !.phase = "thrown", !.totalLength = totalLength,
                     !.next = @ + 1]
     ELSE IF required > Len(rd.buffer)
     THEN IF nextCapacity < required
          THEN [rd EXCEPT !.phase = "thrown", !.totalLength = totalLength,
                          !.next = @ + 1]
          ELSE [rd EXCEPT
                  !.buffer = SetAt(nextBuffer, chunk, rd.totalLength),
                  !.totalLength = totalLength, !.next = @ + 1]
     ELSE [rd EXCEPT !.buffer = SetAt(rd.buffer, chunk, rd.totalLength),
                     !.totalLength = totalLength, !.next = @ + 1]

\* the read loop on readResult.done, and the return statement
readDone(rd) ==
  [rd EXCEPT !.phase = "returned",
             !.result = IF rd.totalLength = Len(rd.buffer)
                        THEN rd.buffer
                        ELSE SubSeq(rd.buffer, 1, rd.totalLength)]

SIZE_LIMIT_TEXT == "Subscription response exceeded size limit."

\* proxySubscriptionRequest after the read: the response it returns for an
\* upstream 200
proxyAnswer(rd) ==
  IF rd.phase = "thrown"
  THEN [rd EXCEPT !.phase = "answered",
                  !.answer = [status |-> 502, text |-> SIZE_LIMIT_TEXT,
                              contentLength |-> 0]]
  ELSE [rd EXCEPT !.phase = "answered",
                  !.answer = [status |-> 200, text |-> "",
                              contentLength |-> Len(rd.result)]]

\* fetch resolved with the upstream response
ReadStart ==
  /\ read.phase = "idle"
  /\ \E response \in UpstreamResponses :
       read' = readStart(response, MAX_RESPONSE_SIZE_BYTES)
  /\ UNCHANGED notReadVars

\* reader.read() resolved with the next chunk
ReadChunk ==
  /\ read.phase = "reading"
  /\ read.next <= Len(read.response.chunks)
  /\ read' = readChunk(read, read.response.chunks[read.next],
                       MAX_RESPONSE_SIZE_BYTES)
  /\ UNCHANGED notReadVars

\* reader.read() resolved with done
ReadDone ==
  /\ read.phase = "reading"
  /\ read.next > Len(read.response.chunks)
  /\ read' = readDone(read)
  /\ UNCHANGED notReadVars

\* proxySubscriptionRequest returns
ProxyAnswer ==
  /\ read.phase \in {"returned", "thrown"}
  /\ read' = proxyAnswer(read)
  /\ UNCHANGED notReadVars

InitRead == read = NoRead

NextRead ==
  \/ ReadStart
  \/ ReadChunk
  \/ ReadDone
  \/ ProxyAnswer

\* --------------------------------------- transport resolution and routing
\* A pathname is the sequence of its segments, each one preceded by "/":
\* "/" is <<"">>, "/ws" is <<"ws">>, "/ws/" is <<"ws", "">> and "/ws/app"
\* is <<"ws", "app">>.
Absent == "<absent>"
SUPPORTED_TRANSPORTS == <<"xhttp", "httpupgrade", "ws">>
DEFAULT_TRANSPORT == "xhttp"

SelectorValues == {Absent, "", "ws", "WS", "xhttp", "httpupgrade", "vless"}
\* how the URL writes the name of the transport parameter
QueryNames == {"transport", "tr%61nsport"}
\* another parameter of the URL, as written
OtherParams == {Absent, "a=b%20c", "mytransport=1"}
EnvTransports == {Absent, "ws", "WS", "vless"}
Segments == {"", "ws", "WS", "xhttp", "httpupgrade", "app", "foo"}
Pathnames == UNION {[1..n -> Segments] : n \in 1..MaxSegments}

\* query: the value searchParams.get('transport') reads; queryName and
\* queryEquals: the parameter as the URL writes it, its name and whether an '='
\* follows the name (?transport has the value '').
Requests ==
  {r \in [query : SelectorValues, queryName : QueryNames, queryEquals : BOOLEAN,
          other : OtherParams, header : SelectorValues, pathname : Pathnames,
          TRANSPORT : EnvTransports] :
     /\ r.query = Absent => (r.queryName = "transport" /\ r.queryEquals)
     /\ ~r.queryEquals => r.query = ""}

\* value ?? ''
OrEmpty(value) == IF value = Absent THEN "" ELSE value

\* String.prototype.toLowerCase on the values in play
toLowerCase(value) ==
  CASE value = "WS" -> "ws"
    [] value = "Trojan" -> "trojan"
    [] OTHER -> value

isTransportType(value) == value \in Range(SUPPORTED_TRANSPORTS)

getDefaultTransport(request) ==
  LET configured == toLowerCase(OrEmpty(request.TRANSPORT))
  IN IF isTransportType(configured) THEN configured ELSE DEFAULT_TRANSPORT

resolveTransport_HeaderFirst(request, pathTransport) ==
  LET fromQuery == toLowerCase(OrEmpty(request.query))
      fromHeader == toLowerCase(OrEmpty(request.header))
  IN IF isTransportType(fromHeader) THEN fromHeader
     ELSE IF isTransportType(fromQuery) THEN fromQuery
     ELSE IF pathTransport # Absent THEN pathTransport
     ELSE getDefaultTransport(request)

resolveTransport(request, pathTransport) ==
  LET fromQuery == toLowerCase(OrEmpty(request.query))
      fromHeader == toLowerCase(OrEmpty(request.header))
  IN IF isTransportType(fromQuery) THEN fromQuery
     ELSE IF isTransportType(fromHeader) THEN fromHeader
     ELSE IF pathTransport # Absent THEN pathTransport
     ELSE getDefaultTransport(request)

\* parsePathTransport: the first supported transport whose prefix the
\* pathname is or starts with; a null transport is Absent.
parsePathTransport(pathname) ==
  LET matching == {i \in 1..Len(SUPPORTED_TRANSPORTS) :
                     \/ pathname = <<SUPPORTED_TRANSPORTS[i]>>
                     \/ Len(pathname) >= 2
                        /\ pathname[1] = SUPPORTED_TRANSPORTS[i]}
  IN IF matching = {}
     THEN [transport |-> Absent, forwardedPath |-> pathname]
     ELSE LET i == CHOOSE m \in matching : \A k \in matching : m <= k
          IN [transport |-> SUPPORTED_TRANSPORTS[i],
              forwardedPath |-> IF pathname = <<SUPPORTED_TRANSPORTS[i]>>
                                THEN <<"">>
                                ELSE Tail(pathname)]

toForwardedRequest_AnyPrefix(finalTransport, pathTransport, forwardedPath, originalPath) ==
  IF pathTransport # Absent /\ forwardedPath # originalPath
  THEN forwardedPath
  ELSE originalPath

\* toForwardedRequest: the pathname of the request it returns
toForwardedRequest(finalTransport, pathTransport, forwardedPath, originalPath) ==
  IF pathTransport # Absent /\ pathTransport = finalTransport
     /\ forwardedPath # originalPath
  THEN forwardedPath
  ELSE originalPath

\* stripRoutingSelectors: the transport parameter and the x-transport-type
\* header of the request it returns
\* request.url.includes('transport=')
urlIncludesTransportEquals(request) ==
  \/ request.query # Absent /\ request.queryName = "transport" /\ request.queryEquals
  \/ request.other = "mytransport=1"

\* a parameter as URLSearchParams writes it back after a change
formSerialize(param) == IF param = "a=b%20c" THEN "a=b+c" ELSE param

stripRoutingSelectors(request) ==
  LET hasTransportHeader == request.header # Absent
      maybeTransportQuery == urlIncludesTransportEquals(request)
      deleted == maybeTransportQuery /\ request.query # Absent
  IN [query |-> IF deleted THEN Absent ELSE request.query,
      other |-> IF deleted THEN formSerialize(request.other) ELSE request.other,
      header |-> IF hasTransportHeader THEN Absent ELSE request.header]

NoRoute ==
  [phase |-> "idle",
   request |-> [query |-> Absent, queryName |-> "transport", queryEquals |-> TRUE,
                other |-> Absent, header |-> Absent, pathname |-> <<"">>,
                TRANSPORT |-> Absent],
   pathTransport |-> Absent, transport |-> Absent,
   forwarded |-> [query |-> Absent, other |-> Absent, header |-> Absent,
                  pathname |-> <<"">>]]

\* fetch, from parsePathTransport to the choice of the handler
RouteRequest ==
  /\ route.phase = "idle"
  /\ \E request \in Requests :
     LET parsed == parsePathTransport(request.pathname)
         transport == resolveTransport(request, parsed.transport)
         selectors == stripRoutingSelectors(request)
     IN route' =
          [phase |-> "routed",
           request |-> request,
           pathTransport |-> parsed.transport,
           transport |-> transport,
           forwarded |->
             [query |-> selectors.query, other |-> selectors.other,
              header |-> selectors.header,
              pathname |-> toForwardedRequest(transport, parsed.transport,
                                              parsed.forwardedPath,
                                              request.pathname)]]
  /\ UNCHANGED notRouteVars

InitRoute == route = NoRoute

NextRoute == RouteRequest

\* ------------------------------------------------- transport handlers
\* One handleUpgrade call of the ws, xhttp or httpupgrade handler: what it
\* does with the request, its socket pair and its dial attempts.
Methods == {"GET", "POST"}
HandlerMaxAttempts == {1, 2}
BackendStatuses == {101, 404, 503}
DialErrors == {"timeout", "error"}

HandlerRequests ==
  [transport : Range(SUPPORTED_TRANSPORTS), method : Methods,
   hasUpgrade : BOOLEAN, maxAttempts : HandlerMaxAttempts,
   optionsValid : BOOLEAN, earlyDataValid : BOOLEAN]

NoCall ==
  [phase |-> "idle",
   request |-> [transport |-> "ws", method |-> "GET", hasUpgrade |-> FALSE,
                maxAttempts |-> 1, optionsValid |-> TRUE,
                earlyDataValid |-> TRUE],
   socketPair |-> "none", attempt |-> 0, dials |-> 0, lastStatus |-> 0,
   lastErrorWasTimeout |-> FALSE, bridged |-> FALSE, status |-> 0,
   failureMarker |-> FALSE]

shouldRetryUpgradeStatus(status) == status = 408 \/ status = 429 \/ status >= 500

\* the method check of a handler: ws and httpupgrade have one, xhttp has none
requiresGet(transport) == transport \in {"ws", "httpupgrade"}

\* handleUpgrade up to its first await
handleUpgradeStart(request) ==
  LET call == [NoCall EXCEPT !.request = request]
  IN IF request.transport = "xhttp" /\ request.hasUpgrade
        /\ ~request.optionsValid
     THEN [call EXCEPT !.phase = "done", !.status = 400]
     ELSE IF ~request.hasUpgrade
     THEN [call EXCEPT !.phase = "passthrough"]
     ELSE IF requiresGet(request.transport) /\ request.method # "GET"
     THEN [call EXCEPT !.phase = "done", !.status = 400]
     ELSE IF request.transport = "xhttp" /\ ~request.earlyDataValid
     THEN [call EXCEPT !.phase = "done", !.status = 400,
                       !.socketPair = "closed"]
     ELSE [call EXCEPT !.phase = "dialing", !.socketPair = "open",
                       !.attempt = 1, !.dials = 1]

\* after the dial loop: the socket pair is closed and the answer is a 502
dialGivenUp(call) ==
  [call EXCEPT !.phase = "done", !.socketPair = "closed", !.status = 502,
               !.failureMarker = TRUE]

\* the end of one turn of the dial loop that did not return
dialNextTurn(call) ==
  IF call.attempt < call.request.maxAttempts
  THEN [call EXCEPT !.phase = "waiting"]
  ELSE dialGivenUp(call)

\* the dial loop on a backend response
dialResponse(call, status, bridgeThrows) ==
  IF status # 101
  THEN LET c1 == [call EXCEPT !.lastStatus = status]
       IN IF ~(call.attempt < call.request.maxAttempts
               /\ shouldRetryUpgradeStatus(status))
          THEN [c1 EXCEPT !.phase = "done", !.socketPair = "closed",
                          !.status = 502, !.failureMarker = TRUE]
          ELSE dialNextTurn(c1)
  ELSE IF bridgeThrows
  THEN dialNextTurn([call EXCEPT !.lastErrorWasTimeout = FALSE])
  ELSE [call EXCEPT !.phase = "done", !.bridged = TRUE, !.status = 101]

\* the dial loop on a failed fetch
dialError(call, error) ==
  dialNextTurn([call EXCEPT !.lastErrorWasTimeout = (error = "timeout")])

\* handleUpgrade is called
HandleUpgrade ==
  /\ up.phase = "idle"
  /\ \E request \in HandlerRequests : up' = handleUpgradeStart(request)
  /\ UNCHANGED notUpVars

\* the passthrough fetch settles
PassthroughSettled(status) ==
  /\ up.phase = "passthrough"
  /\ up' = [up EXCEPT !.phase = "done", !.status = status,
                      !.failureMarker = (status = 502)]
  /\ UNCHANGED notUpVars

\* the backend answers the handshake
DialResponse(status, bridgeThrows) ==
  /\ up.phase = "dialing"
  /\ up' = dialResponse(up, status, bridgeThrows)
  /\ UNCHANGED notUpVars

\* the handshake fetch fails
DialError(error) ==
  /\ up.phase = "dialing"
  /\ up' = dialError(up, error)
  /\ UNCHANGED notUpVars

\* waitForRetry settles and the next attempt is dialled
DialRetry ==
  /\ up.phase = "waiting"
  /\ up' = [up EXCEPT !.phase = "dialing", !.attempt = @ + 1, !.dials = @ + 1]
  /\ UNCHANGED notUpVars

InitUp == up = NoCall

NextUp ==
  \/ HandleUpgrade
  \/ \E status \in {200, 502} : PassthroughSettled(status)
  \/ \E status \in BackendStatuses, bridgeThrows \in BOOLEAN :
       DialResponse(status, bridgeThrows)
  \/ \E error \in DialErrors : DialError(error)
  \/ DialRetry

\* ------------------------------------- identity buckets of several identities
\* The bucketsByUuid map of a UUIDConnectionManager that serves several
\* identities, with the cap on tracked buckets scaled to two. A tracked
\* connection is [uuid, ip]; byIp is read off byConnectionId. No tracked
\* connection reaches UUID_ENTRY_STALE_MS (seven days) within MaxTime ticks.
Uuids == {1, 2, 3}
ConnectionIds == 1..MaxSessions
TrackedBucketsCap == 2

NoTracked == [uuid |-> 0, ip |-> 0]

NoManager ==
  [bucketsByUuid |-> [u \in Uuids |-> NoBucket],
   tracked |-> [c \in ConnectionIds |-> NoTracked],
   uuidByConnectionId |-> [c \in ConnectionIds |-> 0],
   nextCleanupAt |-> UuidCleanupIntervalTicks,
   created |-> 0]

TrackedBuckets(m) == {u \in Uuids : m.bucketsByUuid[u].present}

bucketByIp(m, u, ip) ==
  {c \in m.bucketsByUuid[u].byConnectionId : m.tracked[c].ip = ip}

\* the loop over the idle candidates, oldest first
RECURSIVE evictCandidates(_, _, _)
evictCandidates(m, candidates, t) ==
  IF candidates = {} \/ Cardinality(TrackedBuckets(m)) <= TrackedBucketsCap
  THEN m
  ELSE LET u == CHOOSE c \in candidates :
                  \A d \in candidates :
                    m.bucketsByUuid[c].lastTouchedAt
                      <= m.bucketsByUuid[d].lastTouchedAt
       IN IF t - m.bucketsByUuid[u].lastTouchedAt < UuidIdleBucketTtlTicks
          THEN evictCandidates(m, candidates \ {u}, t)
          ELSE evictCandidates([m EXCEPT !.bucketsByUuid[u] = NoBucket],
                               candidates \ {u}, t)

\* evictIdleBucketsIfNeeded over the whole map
evictIdleBuckets(m, t) ==
  IF Cardinality(TrackedBuckets(m)) <= TrackedBucketsCap
  THEN m
  ELSE evictCandidates(
         m, {u \in TrackedBuckets(m) : m.bucketsByUuid[u].byConnectionId = {}}, t)

\* cleanup over the whole map
sweepBuckets(m, t) ==
  LET kept == [u \in Uuids |->
                 IF m.bucketsByUuid[u].present
                    /\ m.bucketsByUuid[u].byConnectionId = {}
                    /\ t - m.bucketsByUuid[u].lastTouchedAt
                         >= UuidIdleBucketTtlTicks
                 THEN NoBucket
                 ELSE m.bucketsByUuid[u]]
  IN [evictIdleBuckets([m EXCEPT !.bucketsByUuid = kept], t) EXCEPT
        !.nextCleanupAt = t + UuidCleanupIntervalTicks]

maybeSweepBuckets(m, t) ==
  IF t < m.nextCleanupAt THEN m ELSE sweepBuckets(m, t)

\* removeConnection(uuid, bucket, connectionId, invokeDisconnect, .., keep)
dropTracked(m, u, connectionId, keepBucketWhenEmpty) ==
  IF connectionId \notin m.bucketsByUuid[u].byConnectionId
  THEN [m EXCEPT !.uuidByConnectionId[connectionId] = 0]
  ELSE LET m1 == [m EXCEPT
                    !.bucketsByUuid[u].byConnectionId = @ \ {connectionId},
                    !.uuidByConnectionId[connectionId] = 0]
       IN IF ~keepBucketWhenEmpty /\ m1.bucketsByUuid[u].byConnectionId = {}
          THEN [m1 EXCEPT !.bucketsByUuid[u] = NoBucket]
          ELSE m1

RECURSIVE dropAllTracked(_, _, _)
dropAllTracked(m, u, ids) ==
  IF ids = {} THEN m
  ELSE LET c == CHOOSE x \in ids : TRUE
       IN dropAllTracked(dropTracked(m, u, c, TRUE), u, ids \ {c})

\* registerConnection(uuid, ip, connectionId, disconnect) on the whole map
trackConnection(m, u, ip, connectionId, t) ==
  LET m1 == maybeSweepBuckets(m, t)
      \* getOrCreateBucket
      m2 == IF m1.bucketsByUuid[u].present
            THEN [m1 EXCEPT !.bucketsByUuid[u].lastTouchedAt = t]
            ELSE [m1 EXCEPT !.bucketsByUuid[u] =
                    [present |-> TRUE, byConnectionId |-> {},
                     lastTouchedAt |-> t]]
      m3 == dropAllTracked(m2, u, bucketByIp(m2, u, ip))
  IN IF Cardinality(m3.bucketsByUuid[u].byConnectionId) >= maxConnections
        /\ bucketByIp(m3, u, ip) = {}
     THEN m3
     ELSE evictIdleBuckets(
            [m3 EXCEPT
               !.bucketsByUuid[u].byConnectionId = @ \cup {connectionId},
               !.bucketsByUuid[u].lastTouchedAt = t,
               !.tracked[connectionId] = [uuid |-> u, ip |-> ip],
               !.uuidByConnectionId[connectionId] = u],
            t)

\* unregisterConnection(uuid, connectionId) on the whole map
untrackConnection(m, u, connectionId, t) ==
  LET m1 == maybeSweepBuckets(m, t)
  IN IF ~m1.bucketsByUuid[u].present
     THEN [m1 EXCEPT !.uuidByConnectionId[connectionId] = 0]
     ELSE LET m2 == dropTracked(m1, u, connectionId, FALSE)
          IN IF m2.bucketsByUuid[u].present
             THEN [m2 EXCEPT !.bucketsByUuid[u].lastTouchedAt = t]
             ELSE m2

\* a new session of identity u from address ip is registered
TrackSession(u, ip) ==
  /\ idm.created < MaxSessions
  /\ idm' = [trackConnection(idm, u, ip, idm.created + 1, now) EXCEPT
               !.created = idm.created + 1]
  /\ UNCHANGED notIdmVars

\* a session that was created is unregistered
UntrackSession(u, connectionId) ==
  /\ connectionId <= idm.created
  /\ idm' = untrackConnection(idm, u, connectionId, now)
  /\ UNCHANGED notIdmVars

InitIdm == idm = NoManager

NextIdm ==
  \/ \E u \in Uuids, ip \in IPs : TrackSession(u, ip)
  \/ \E u \in Uuids, c \in ConnectionIds : UntrackSession(u, c)
  \/ Tick

\* ------------------------------------------- BackendManager construction
\* BACKEND_LIST as parseBackendList returns it: up to MaxEntries entries, each
\* a URL (its normalised key) and the weight parseWeight gave it, a positive
\* integer.  The model of the pool fixes BACKEND_LIST; this part lets it vary.
UrlKeys == 1..MaxEntries
ConfigEntries == [rawUrl : UrlKeys, weight : 1..MaxWeight]
BackendLists == UNION {[1..n -> ConfigEntries] : n \in 1..MaxEntries}

NoCtor == [pc |-> "new", parsedConfigurations |-> <<>>, backends |-> <<>>,
           table |-> NoTable]

\* The loop of initializeBackends: an entry whose key is known adds its weight
\* to the backend of that key, any other entry appends a backend.
RECURSIVE initializeBackends(_, _)
initializeBackends(parsedConfigurations, backendByUrl) ==
  IF parsedConfigurations = <<>> THEN backendByUrl
  ELSE LET configuration == Head(parsedConfigurations)
           known == {i \in 1..Len(backendByUrl) :
                       backendByUrl[i].key = configuration.rawUrl}
       IN initializeBackends(
            Tail(parsedConfigurations),
            IF known # {}
            THEN LET existing == CHOOSE i \in known : TRUE
                 IN [backendByUrl EXCEPT ![existing].weight = @ + configuration.weight]
            ELSE Append(backendByUrl,
                        [key |-> configuration.rawUrl,
                         weight |-> configuration.weight]))

\* new BackendManager(env): the backends, and the alias table over all of them
\* (every backend starts healthy).
Construct ==
  /\ ctor.pc = "new"
  /\ LET bs == initializeBackends(ctor.parsedConfigurations, <<>>)
     IN ctor' = [ctor EXCEPT
                   !.pc = "built",
                   !.backends = bs,
                   !.table = buildAliasTableOf([i \in 1..Len(bs) |-> i],
                                               [i \in 1..Len(bs) |-> bs[i].weight])]
  /\ UNCHANGED notCtorVars

InitCtor == ctor = NoCtor

NextCtor == Construct

\* ===================================================== xhttp early data
KNOWN_PROTOCOL_NEGOTIATION_TOKENS == {"trojan", "vless", "vmess"}

MAX_EARLY_DATA_BYTES == 65536

\* A Sec-WebSocket-Protocol token is a name, or a run of base64url characters
\* written as their 6-bit values.
Sextets == {0, 1, 16}
TokenNames == {"vless", "Trojan", "a.b"}
ProtocolTokens ==
  {[name |-> n, digits |-> <<>>] : n \in TokenNames}
    \cup {[name |-> "", digits |-> d] :
            d \in UNION {[1..n -> Sextets] : n \in {1, 2, 3}}}

\* the header after split(','), trim and the removal of empty entries
ProtocolHeaders ==
  {<<>>} \cup {<<t>> : t \in ProtocolTokens}
    \cup {<<t, u>> : t \in ProtocolTokens, u \in ProtocolTokens}

\* the ed query parameter: absent, or a number (-1 stands for every value that
\* is not a non-negative integer)
EdParams ==
  {[present |-> FALSE, value |-> 0]}
    \cup {[present |-> TRUE, value |-> v] : v \in {-1, 0, 1, 2, 70000}}

XhttpRequests ==
  [ed : EdParams, protocol : ProtocolHeaders, maxAttempts : HandlerMaxAttempts]

RECURSIVE RadixValue(_, _)
\* the number whose digits in the given radix are the sequence
RadixValue(digits, radix) ==
  IF digits = <<>> THEN 0
  ELSE RadixValue(SubSeq(digits, 1, Len(digits) - 1), radix) * radix
         + digits[Len(digits)]

RadixDigits(value, radix, n) ==
  [i \in 1..n |-> (value \div (radix ^ (n - i))) % radix]

isLikelyBase64UrlToken(token) == token.name = "" /\ Len(token.digits) > 0

\* atob on the padded token: it throws on a token of 4k+1 characters, and drops
\* the bits after the last whole byte
atobThrows(digits) == Len(digits) % 4 = 1

decodeBase64UrlToUint8Array(digits) ==
  LET n == (Len(digits) * 6) \div 8
      spare == Len(digits) * 6 - n * 8
  IN RadixDigits(RadixValue(digits, 64) \div (2 ^ spare), 256, n)

\* btoa without its padding: the bytes, filled with zero bits to whole characters
encodeUint8ArrayToBase64Url(input) ==
  LET m == (Len(input) * 8 + 5) \div 6
      fill == m * 6 - Len(input) * 8
  IN RadixDigits(RadixValue(input, 256) * (2 ^ fill), 64, m)

isCanonicalBase64UrlToken(token) ==
  /\ ~atobThrows(token.digits)
  /\ encodeUint8ArrayToBase64Url(decodeBase64UrlToUint8Array(token.digits))
       = token.digits

negotiationTokens(tokens) ==
  SelectSeq(tokens,
            LAMBDA t : toLowerCase(t.name) \in KNOWN_PROTOCOL_NEGOTIATION_TOKENS)

parseEarlyDataHint(ed) ==
  IF ~ed.present THEN [throws |-> FALSE, hint |-> 0]
  ELSE IF ed.value < 0 THEN [throws |-> TRUE, hint |-> 0]
  ELSE [throws |-> FALSE,
        hint |-> IF ed.value < MAX_EARLY_DATA_BYTES
                 THEN ed.value ELSE MAX_EARLY_DATA_BYTES]

NoEarlyData ==
  [data |-> <<>>, errorMessage |-> FALSE, shouldStripProtocolHeader |-> FALSE]

parseEarlyDataFromWebSocketProtocolHeader_KeepHeader(tokens, hint) ==
  IF \/ hint <= 0
     \/ Len(tokens) = 0
     \/ Len(negotiationTokens(tokens)) > 0
     \/ Len(tokens) # 1
  THEN NoEarlyData
  ELSE IF ~isLikelyBase64UrlToken(tokens[1]) \/ ~isCanonicalBase64UrlToken(tokens[1])
  THEN NoEarlyData
  ELSE LET decoded == decodeBase64UrlToUint8Array(tokens[1].digits)
       IN IF Len(decoded) > hint
          THEN [NoEarlyData EXCEPT !.errorMessage = TRUE]
          ELSE [data |-> decoded, errorMessage |-> FALSE,
                shouldStripProtocolHeader |-> FALSE]

\* data <<>> is the code's null.
parseEarlyDataFromWebSocketProtocolHeader(tokens, hint) ==
  IF \/ hint <= 0
     \/ Len(tokens) = 0
     \/ Len(negotiationTokens(tokens)) > 0
     \/ Len(tokens) # 1
  THEN NoEarlyData
  ELSE IF ~isLikelyBase64UrlToken(tokens[1]) \/ ~isCanonicalBase64UrlToken(tokens[1])
  THEN NoEarlyData
  ELSE LET decoded == decodeBase64UrlToUint8Array(tokens[1].digits)
       IN IF Len(decoded) > hint
          THEN [NoEarlyData EXCEPT !.errorMessage = TRUE]
          ELSE [data |-> decoded, errorMessage |-> FALSE,
                shouldStripProtocolHeader |-> TRUE]

\* handshakes: the Sec-WebSocket-Protocol tokens of each dial's request (<<>>:
\* no such header); sockets: what each accepted backend socket was sent, in
\* order; bridgedSocket: the socket the bridge relays to (0: none).
NoXhttp ==
  [phase |-> "idle",
   request |-> [ed |-> [present |-> FALSE, value |-> 0], protocol |-> <<>>,
                maxAttempts |-> 1],
   earlyDataChunk |-> <<>>, backendHeaders |-> <<>>, attempt |-> 0,
   handshakes |-> <<>>, sockets |-> <<>>, bridgedSocket |-> 0,
   earlyDataForwardFailed |-> FALSE, status |-> 0]

EarlyMessage(data) == [kind |-> "early-data", data |-> data, payload |-> 0]
RelayedMessage(payload) == [kind |-> "relayed", data |-> <<>>, payload |-> payload]

RelayPayloads == {1, 2}

\* handleUpgrade of the xhttp handler on a GET upgrade request with a valid
\* mode and backend URL, up to the first dial
xhttpUpgradeStart(request) ==
  LET parsedHint == parseEarlyDataHint(request.ed)
      earlyDataResult ==
        parseEarlyDataFromWebSocketProtocolHeader(request.protocol, parsedHint.hint)
  IN IF parsedHint.throws \/ earlyDataResult.errorMessage
     THEN [NoXhttp EXCEPT !.phase = "done", !.request = request, !.status = 400]
     ELSE [NoXhttp EXCEPT
             !.phase = "dialing", !.request = request, !.attempt = 1,
             !.earlyDataChunk = earlyDataResult.data,
             !.backendHeaders =
                IF earlyDataResult.shouldStripProtocolHeader
                THEN <<>> ELSE request.protocol]

\* after a failed attempt: the next one, or the 502 once the attempts are used up
xhttpAfterAttempt(call, retryable) ==
  IF call.attempt < call.request.maxAttempts /\ retryable
  THEN [call EXCEPT !.attempt = @ + 1]
  ELSE [call EXCEPT !.phase = "done", !.status = 502]

\* the backend answered 101 with a socket: accept, the early data, the bridge
xhttpAccepted(call, sendThrows, bridgeThrows) ==
  LET hasEarlyData == Len(call.earlyDataChunk) > 0
      socket == Len(call.sockets) + 1
      sent == IF hasEarlyData /\ ~sendThrows
              THEN <<EarlyMessage(call.earlyDataChunk)>> ELSE <<>>
      opened == [call EXCEPT !.sockets = Append(@, sent)]
  IN IF hasEarlyData /\ sendThrows
     THEN xhttpAfterAttempt([opened EXCEPT !.earlyDataForwardFailed = TRUE], TRUE)
     ELSE IF bridgeThrows
     THEN xhttpAfterAttempt(opened, TRUE)
     ELSE [opened EXCEPT !.phase = "bridged", !.bridgedSocket = socket,
                         !.status = 101]

XhttpUpgrade ==
  /\ xh.phase = "idle"
  /\ \E request \in XhttpRequests : xh' = xhttpUpgradeStart(request)
  /\ UNCHANGED notXhVars

XhttpDialAccepted(sendThrows, bridgeThrows) ==
  /\ xh.phase = "dialing"
  /\ xh' = xhttpAccepted([xh EXCEPT !.handshakes = Append(@, xh.backendHeaders)],
                         sendThrows, bridgeThrows)
  /\ UNCHANGED notXhVars

XhttpDialRejected(status) ==
  /\ xh.phase = "dialing"
  /\ xh' = xhttpAfterAttempt([xh EXCEPT !.handshakes = Append(@, xh.backendHeaders)],
                             shouldRetryUpgradeStatus(status))
  /\ UNCHANGED notXhVars

XhttpDialError ==
  /\ xh.phase = "dialing"
  /\ xh' = xhttpAfterAttempt([xh EXCEPT !.handshakes = Append(@, xh.backendHeaders)],
                             TRUE)
  /\ UNCHANGED notXhVars

\* the bridge relays a client message to the backend socket
XhttpRelay(payload) ==
  /\ xh.phase = "bridged"
  /\ Len(SelectSeq(xh.sockets[xh.bridgedSocket], LAMBDA m : m.kind = "relayed"))
       < Cardinality(RelayPayloads)
  /\ xh' = [xh EXCEPT !.sockets[xh.bridgedSocket] = Append(@, RelayedMessage(payload))]
  /\ UNCHANGED notXhVars

InitXh == xh = NoXhttp


NextXh ==
  \/ XhttpUpgrade
  \/ \E sendThrows \in BOOLEAN, bridgeThrows \in BOOLEAN :
        XhttpDialAccepted(sendThrows, bridgeThrows)
  \/ \E status \in BackendStatuses \ {101} : XhttpDialRejected(status)
  \/ XhttpDialError
  \/ \E payload \in RelayPayloads : XhttpRelay(payload)

\* ===================================================== rate limiter and its state collection
\* A ConnectionRateLimiter called directly, and beside it the limiter of the
\* same configuration and the same calls whose idle-state TTL never runs out,
\* so that it never deletes an address's state.
NeverTicks == MaxGcTime + 1
GcConnIds == {1, 2}

NewLimiter(maxConnPerIp, maxConnPerMin, idleStateTtlTicks) ==
  [stateByIp |-> [ip \in IPs |-> NoIpState],
   nextCleanupAt |-> 0 + CleanupIntervalTicks,
   maxConnPerIp |-> Max(1, maxConnPerIp),
   maxConnPerMin |-> Max(1, maxConnPerMin),
   idleStateTtlTicks |-> idleStateTtlTicks]

\* returned / expected: what the last call returned on the limiter and on the
\* one that keeps every state (0 for a call that returns nothing)
NoGc ==
  [limiter |-> NewLimiter(1, 1, IdleStateTtlTicks),
   keeping |-> NewLimiter(1, 1, NeverTicks),
   call |-> "none", returned |-> 0, expected |-> 0, deleted |-> FALSE]

BoolValue(b) == IF b THEN 1 ELSE 0

\* an address's state was deleted by the call
Deleted(before, after) ==
  \E ip \in IPs : before.stateByIp[ip].present /\ ~after.stateByIp[ip].present

GcStep(call, limiter, keeping, returned, expected) ==
  gc' = [limiter |-> limiter, keeping |-> keeping, call |-> call,
         returned |-> returned, expected |-> expected,
         deleted |-> gc.deleted \/ Deleted(gc.limiter, limiter)]

GcTick ==
  /\ now < MaxGcTime
  /\ now' = now + 1
  /\ UNCHANGED <<poolVars, admitVars, bridge, cacheVars, callVars, lateVars>>

GcCheck(ip) ==
  /\ LET got == rlCheckConnectionAllowed(gc.limiter, ip, now)
         ref == rlCheckConnectionAllowed(gc.keeping, ip, now)
     IN GcStep("check", got.rl, ref.rl, BoolValue(got.allowed), BoolValue(ref.allowed))
  /\ UNCHANGED notGcVars

GcRegister(ip, connId) ==
  /\ GcStep("register", rlRegisterConnection(gc.limiter, ip, connId, now),
            rlRegisterConnection(gc.keeping, ip, connId, now), 0, 0)
  /\ UNCHANGED notGcVars

GcUnregister(ip, connId) ==
  /\ GcStep("unregister", rlUnregisterConnection(gc.limiter, ip, connId, now),
            rlUnregisterConnection(gc.keeping, ip, connId, now), 0, 0)
  /\ UNCHANGED notGcVars

GcRetryAfter(ip) ==
  /\ LET got == getRetryAfterSeconds(gc.limiter, ip, now)
         ref == getRetryAfterSeconds(gc.keeping, ip, now)
     IN GcStep("retry-after", got.rl, ref.rl, got.seconds, ref.seconds)
  /\ UNCHANGED notGcVars

GcCleanup ==
  /\ GcStep("cleanup", cleanupOldAttempts(gc.limiter, now),
            cleanupOldAttempts(gc.keeping, now), 0, 0)
  /\ UNCHANGED notGcVars

InitGc == gc = NoGc

InitLate == InitXh /\ InitGc

NextGc ==
  \/ GcTick
  \/ \E ip \in IPs : GcCheck(ip)
  \/ \E ip \in IPs, connId \in GcConnIds : GcRegister(ip, connId)
  \/ \E ip \in IPs, connId \in GcConnIds : GcUnregister(ip, connId)
  \/ \E ip \in IPs : GcRetryAfter(ip)
  \/ GcCleanup

\* ------------------------------------------------------ specification
InitBackend ==
  [healthy |-> TRUE, consecutiveFailures |-> 0,
   consecutiveSuccesses |-> 0]

InitPool ==
  /\ now = 0
  /\ stickySession \in BOOLEAN
  /\ backends = [b \in Backends |-> InitBackend]
  /\ healthyAliasTable =
       rebuildHealthySelectionStructures([b \in Backends |-> InitBackend]).table
  /\ healthyIndexHeap =
       rebuildHealthySelectionStructures([b \in Backends |-> InitBackend]).heap
  /\ healthCheckInFlight = FALSE
  /\ nextHealthCheckAt = 0 + HealthCheckIntervalTicks
  /\ probePending = {}
  /\ probeChanges = FALSE
  /\ drv = [r \in Drivers |-> IdleDriver]
  /\ successRun = [b \in Backends |-> 0]

vars == <<now, poolVars, admitVars, restVars>>

NextPool ==
  \/ Tick
  \/ \E b \in Backends, isHealthyResult \in BOOLEAN : ProbeResult(b, isHealthyResult)
  \/ \E r \in Drivers : DriverSelect(r)
  \/ \E r \in Drivers, outcome \in HandlerOutcomes : DriverHandlerDone(r, outcome)
  \/ \E r \in Drivers : DriverReturn(r)

\* The admission controllers stay as constructed while the pool runs.
InitRest ==
  InitBridge /\ InitCache /\ InitRead /\ InitRoute /\ InitUp /\ InitIdm /\ InitCtor
  /\ InitLate

\* the pool and the admission control at rest
InitIdle ==
  /\ InitPool /\ ~stickySession
  /\ InitAdmit /\ rateLimiter.maxConnPerIp = 2 /\ rateLimiter.maxConnPerMin = 2

InitPoolRun ==
  /\ InitPool
  /\ InitAdmit /\ rateLimiter.maxConnPerIp = 2 /\ rateLimiter.maxConnPerMin = 2
  /\ InitRest

SpecPool == InitPoolRun /\ [][NextPool]_vars

\* ----------------------------------------------- the pool, with fairness
\* Date.now() keeps growing.  Only the difference between the clock and the
\* schedule mark is read, so once the clock has reached MaxTime a further
\* unit of time is recorded by moving the mark back instead.
TickOn ==
  /\ IF now < MaxTime
     THEN now' = now + 1 /\ UNCHANGED nextHealthCheckAt
     ELSE now' = now /\ nextHealthCheckAt' = Max(nextHealthCheckAt - 1, 0)
  /\ UNCHANGED <<stickySession, backends, healthyAliasTable, healthyIndexHeap,
                 healthCheckInFlight, probePending, probeChanges, drv, successRun>>
  /\ UNCHANGED <<admitVars, restVars>>

\* A backend marked unhealthy answers its probes with a status below 500;
\* a healthy one answers anything.
ProbeAnswered(b, isHealthyResult) ==
  /\ ~backends[b].healthy => isHealthyResult
  /\ ProbeResult(b, isHealthyResult)

NextPoolFair ==
  \/ TickOn
  \/ \E b \in Backends, isHealthyResult \in BOOLEAN : ProbeAnswered(b, isHealthyResult)
  \/ \E r \in Drivers : DriverSelect(r)
  \/ \E r \in Drivers, outcome \in HandlerOutcomes : DriverHandlerDone(r, outcome)
  \/ \E r \in Drivers : DriverReturn(r)

\* Time passes; every probe settles (its fetch is aborted after
\* HEALTH_CHECK_TIMEOUT_MS); requests keep arriving, so getBackend keeps being
\* called; every handler call settles (its fetches have timeouts) and the
\* driver returns.
FairPool ==
  /\ WF_vars(TickOn)
  /\ \A b \in Backends :
        WF_vars(\E isHealthyResult \in BOOLEAN : ProbeAnswered(b, isHealthyResult))
  /\ WF_vars(\E r \in Drivers : DriverSelect(r))
  /\ WF_vars(\E r \in Drivers, outcome \in HandlerOutcomes : DriverHandlerDone(r, outcome))
  /\ WF_vars(\E r \in Drivers : DriverReturn(r))

SpecPoolFair == InitPoolRun /\ [][NextPoolFair]_vars /\ FairPool

\* The backend pool stays as constructed while admission runs.
InitAdmitRun == InitPool /\ ~stickySession /\ InitAdmit /\ InitRest

SpecAdmit == InitAdmitRun /\ [][NextAdmit]_vars

\* One bridged socket pair; the pool and the admission control stay at rest.
InitBridgeRun == InitIdle /\ InitRest

SpecBridge == InitBridgeRun /\ [][NextBridge]_vars

\* The subscription requests of one cache; the other components stay at rest.
InitCacheRun == InitIdle /\ InitRest

SpecCache == InitCacheRun /\ [][NextCache]_vars

\* One readResponseBodyWithLimit call; the other components stay at rest.
InitReadRun == InitIdle /\ InitRest

SpecRead == InitReadRun /\ [][NextRead]_vars

\* One routed request; the other components stay at rest.
InitRouteRun == InitIdle /\ InitRest

SpecRoute == InitRouteRun /\ [][NextRoute]_vars

\* One handleUpgrade call; the other components stay at rest.
InitUpRun == InitIdle /\ InitRest

SpecUp == InitUpRun /\ [][NextUp]_vars

\* The identity buckets of several identities; the rest stays at rest.
InitIdmRun == InitIdle /\ InitRest

SpecIdm == InitIdmRun /\ [][NextIdm]_vars

\* Every BACKEND_LIST of the bounded set is a starting point.
InitCtorRun ==
  /\ InitIdle
  /\ InitBridge /\ InitCache /\ InitRead /\ InitRoute /\ InitUp /\ InitIdm
  /\ InitLate
  /\ ctor \in {[NoCtor EXCEPT !.parsedConfigurations = l] : l \in BackendLists}

SpecCtor == InitCtorRun /\ [][NextCtor]_vars

\* bridgeSockets called with callbacks that may throw.
InitThrowingRun ==
  /\ InitIdle
  /\ InitCache /\ InitRead /\ InitRoute /\ InitUp /\ InitIdm /\ InitCtor
  /\ InitLate
  /\ bridge \in {[NewBridge EXCEPT !.onRelayErrorThrows = relayThrows,
                                   !.onClosedThrows = closedThrows] :
                    relayThrows \in BOOLEAN, closedThrows \in BOOLEAN}

SpecThrowing == InitThrowingRun /\ [][NextBridge]_vars

\* A rate limiter of every configuration and the one that keeps every state.
InitGcRun ==
  /\ InitIdle
  /\ InitBridge /\ InitCache /\ InitRead /\ InitRoute /\ InitUp /\ InitIdm /\ InitCtor
  /\ InitXh
  /\ gc \in {[NoGc EXCEPT
                !.limiter = NewLimiter(m, perMin, IdleStateTtlTicks),
                !.keeping = NewLimiter(m, perMin, NeverTicks)] :
               m \in ConfiguredMaxConnPerIp, perMin \in ConfiguredMaxConnPerMin}

SpecGc == InitGcRun /\ [][NextGc]_vars

\* The subscription requests that find the cache filled by earlier ones.
InitLruRun ==
  /\ InitIdle
  /\ InitBridge /\ InitRead /\ InitRoute /\ InitUp /\ InitIdm /\ InitCtor
  /\ InitLate
  /\ subscriptionCache = WarmCache
  /\ sub = [r \in SubReqs |->
              [pc |-> "new", key |-> 0, search |-> "", startedAt |-> 0, from |-> "none",
               response |-> NoResponse]]
  /\ stored = [key \in SubKeys |-> IF key \in {1, 2} THEN {0} ELSE {}]

SpecLru == InitLruRun /\ [][NextCache]_vars

\* One xhttp upgrade; the rest stays at rest.
InitXhRun ==
  /\ InitIdle
  /\ InitBridge /\ InitCache /\ InitRead /\ InitRoute /\ InitUp /\ InitIdm /\ InitCtor
  /\ InitXh /\ InitGc

SpecXh == InitXhRun /\ [][NextXh]_vars


\* ===================================================== claims: pool
Last(q) == q[Len(q)]

\* The step is the failover driver marking b healthy after a request on it.
MarkedHealthyStep(b) ==
  \E r \in Drivers :
     /\ drv[r].pc = "handler"
     /\ drv'[r].pc = "done"
     /\ Last(drv'[r].outcomes) = "ok"
     /\ Last(drv[r].attemptedBackendUrls) = b

C5_FirstFailureFlipsUnhealthy ==
  [][\A b \in Backends :
        /\ (backends[b].healthy
              /\ backends'[b].consecutiveFailures > backends[b].consecutiveFailures)
              => (~backends'[b].healthy /\ backends'[b].consecutiveSuccesses = 0)
        /\ (backends[b].healthy /\ ~backends'[b].healthy)
              => /\ backends'[b].consecutiveFailures = backends[b].consecutiveFailures + 1
                 /\ successRun'[b] = 0]_vars

C5_Witness ==
  \E b \in Backends :
     /\ ~backends[b].healthy
     /\ backends[b].consecutiveFailures = 1
     /\ backends[b].consecutiveSuccesses = 0

\* C6: whenever some healthy backend is not excluded, every backend that
\* getBackend(excluded) can return is healthy.
C6_UnhealthySkipped ==
  \A excluded \in SUBSET Backends :
     (\E b \in Backends \ excluded : Healthy(b))
        => \A selected \in getBackend(excluded) : Healthy(selected)

\* C7: within one request the backend of attempt k differs from those of
\* attempts 1..k-1 while the pool has at least k backends, and every attempt
\* that had a healthy untried backend to choose selected a healthy one.
C7_FailoverExcludesTried ==
  \A r \in Drivers :
     /\ \A j \in 1..Len(drv[r].attemptedBackendUrls), i \in 1..Len(drv[r].attemptedBackendUrls) :
           (i < j /\ j <= NumBackends)
              => drv[r].attemptedBackendUrls[i] # drv[r].attemptedBackendUrls[j]
     /\ drv[r].preferredHealthy

\* C8: a request whose every attempt failed ends after exactly max_retries
\* handler invocations, with every attempted backend marked failed, and with
\* status 502.
C8_AllFailedGives502 ==
  \A r \in Drivers :
     (drv[r].pc = "done" /\ \A i \in 1..Len(drv[r].outcomes) : drv[r].outcomes[i] = "failed")
        => /\ drv[r].calls = MAX_RETRIES
           /\ Len(drv[r].outcomes) = MAX_RETRIES
           /\ drv[r].markedFailed = drv[r].attemptedBackendUrls
           /\ drv[r].status = 502

C8_Witness ==
  \E r \in Drivers :
     /\ drv[r].pc = "done"
     /\ Len(drv[r].outcomes) = MAX_RETRIES
     /\ \A i \in 1..Len(drv[r].outcomes) : drv[r].outcomes[i] = "failed"

\* C9: getBackend(excluded) always returns a configured backend; it returns a
\* non-excluded one whenever one exists, whatever its health, and the first
\* configured backend when every backend is excluded.
C9_AlwaysReturnsBackend ==
  \A excluded \in SUBSET Backends :
     /\ getBackend(excluded) # {}
     /\ \A selected \in getBackend(excluded) :
           /\ selected \in Backends
           /\ (Backends \ excluded # {}) => selected \notin excluded
           /\ (Backends \ excluded = {}) => selected = 1

\* A second attempt was routed to an unhealthy untried backend because no
\* backend was healthy.
C9_Witness ==
  \E r \in Drivers :
     /\ drv[r].pc = "handler"
     /\ Len(drv[r].attemptedBackendUrls) >= 2
     /\ \A b \in Backends : ~Healthy(b)
     /\ Last(drv[r].attemptedBackendUrls)
           \notin Range(SubSeq(drv[r].attemptedBackendUrls, 1,
                               Len(drv[r].attemptedBackendUrls) - 1))

\* ================================================ claims: admission
\* C1: with UUID_MAX_CONNECTIONS = max > 0, the number of simultaneously
\* bridged sessions (status 101, bridge not yet closed) that carry the same
\* identity never exceeds max, under any interleaving of upgrade requests.
C1_BridgedSessionsWithinMax ==
  Cardinality({r \in Reqs : req[r].bridged /\ req[r].status = 101}) <= maxConnections

\* C2: for every upgrade request the rate limiter admitted, registerConnection
\* and unregisterConnection are each called exactly once for its (ip, id):
\* never twice, unregister not while the bridge is open, and unregister done
\* once the response is returned and no bridge is open, after which the id is
\* in no active set.
C2_RegisterUnregisterOnce ==
  \A r \in Reqs :
     /\ req[r].registerCalls <= 1
     /\ req[r].unregisterCalls <= req[r].registerCalls
     /\ (req[r].pc # "new" /\ req[r].status \notin {403, 429})
           => req[r].registerCalls = 1
     /\ req[r].bridged => req[r].unregisterCalls = 0
     /\ (req[r].pc = "returned" /\ req[r].registerCalls = 1 /\ ~req[r].bridged)
           => /\ req[r].unregisterCalls = 1
              /\ \A ip \in IPs : r \notin rateLimiter.stateByIp[ip].activeConnectionIds

\* C3: for every address, in every reachable state of the rate limiter as
\* fetch drives it, the active connection set holds at most maxConnPerIp
\* (RATE_LIMIT_MAX_CONN_PER_IP) connection ids.
C3_ActiveSetWithinMaxConnPerIp ==
  \A ip \in IPs :
     Cardinality(rateLimiter.stateByIp[ip].activeConnectionIds)
        <= rateLimiter.maxConnPerIp

\* An address is at its cap and a request from it was answered 429.
C3_Witness ==
  \E ip \in IPs, r \in Reqs :
     /\ Cardinality(rateLimiter.stateByIp[ip].activeConnectionIds)
           = rateLimiter.maxConnPerIp
     /\ req[r].ip = ip
     /\ req[r].status = 429

\* C10: with UUID_MAX_CONNECTIONS = 1, of two sequential upgrades from the
\* same address with the same identity the second is admitted by the identity
\* manager while the first is bridged and tracked; and whenever a request is
\* bridged (status 101), every session of its address in the identity's
\* bucket was live, has its disconnect callback invoked exactly once, with
\* close code 1008, is closed and is out of the bucket, so that of the two only
\* the new session remains bridged.
C10_SameAddressSessionReplaced ==
  /\ []((req[1].bridged /\ \A r \in Reqs \ {1, 2} : req[r].pc = "new")
          => /\ req[2].pc = "new"
                  => /\ 1 \in uuidManager.bucket.byConnectionId
                     /\ checkConnectionAllowed(World, req[1].ip, now).allowed
             /\ (req[2].pc = "handler" /\ req[2].ip = req[1].ip)
                  => 1 \in uuidManager.bucket.byConnectionId)
  /\ [][\A r2 \in Reqs :
          (req[r2].pc = "handler" /\ req'[r2].bridged)
          => /\ req'[r2].status = 101
             /\ \A r1 \in uuidManager.bucket.byConnectionId :
                  req[r1].ip = req[r2].ip
                  => /\ req[r1].bridged
                     /\ req[r1].disconnectCalls = 0
                     /\ ~req'[r1].bridged
                     /\ req'[r1].disconnectCalls = 1
                     /\ req'[r1].disconnectCode = UUID_REPLACED_CLOSE_CODE
                     /\ req'[r1].closeCode = UUID_REPLACED_CLOSE_CODE
                     /\ r1 \notin uuidManager'.bucket.byConnectionId]_vars

\* The second of two same-address upgrades is bridged with 101 and the first
\* was disconnected once with 1008.
C10_Witness ==
  /\ req[1].ip = req[2].ip
  /\ req[2].bridged
  /\ req[2].status = 101
  /\ ~req[1].bridged
  /\ req[1].disconnectCalls = 1
  /\ req[1].closeCode = UUID_REPLACED_CLOSE_CODE

\* ------------------------------------------------ claims: token bucket
\* the tokens (in units) a check or registration at the current time finds in
\* the bucket of ip: a new or collected bucket is full, a kept one is refilled
\* for the time since its last refill, up to the capacity
TokensAvailable(ip) ==
  LET state == rateLimiter.stateByIp[ip]
      capacity == rateLimiter.maxConnPerMin * OneToken
  IN IF ~state.present
     THEN capacity
     ELSE Min(capacity,
              state.tokens + (now - state.lastRefillAt) * rateLimiter.maxConnPerMin)

\* the requests of ip registered at time s or later
RegisteredSince(ip, s) ==
  {r \in Reqs : req[r].registerCalls >= 1 /\ req[r].ip = ip /\ req[r].registeredAt >= s}

\* the step registers the connection of request r
RegisteredStep(r) == req[r].registerCalls = 0 /\ req'[r].registerCalls = 1

\* C14: per address the bucket's capacity is maxConnPerMin tokens and its
\* tokens stay within [0, capacity]; registering a new connection id takes
\* exactly one token from what the bucket holds at that time, registering an
\* active id again takes none; so in any interval [s, now] at most
\* capacity + (now - s) * maxConnPerMin / one minute connections of the address
\* are admitted.
C14_TokenBucketBound ==
  /\ [](\A ip \in IPs :
          LET state == rateLimiter.stateByIp[ip]
              capacity == rateLimiter.maxConnPerMin * OneToken
          IN /\ state.present => (0 <= state.tokens /\ state.tokens <= capacity)
             /\ \A c \in state.activeConnectionIds :
                   rlRegisterConnection(rateLimiter, ip, c, now).stateByIp[ip].tokens
                      = TokensAvailable(ip)
             /\ \A s \in 0..now :
                   OneToken * Cardinality(RegisteredSince(ip, s))
                      <= capacity + (now - s) * rateLimiter.maxConnPerMin)
  /\ [][\A r \in Reqs :
          RegisteredStep(r)
             => rateLimiter'.stateByIp[req'[r].ip].tokens
                   = TokensAvailable(req'[r].ip) - OneToken]_vars

C14_Witness ==
  \E ip \in IPs :
     /\ now >= 1
     /\ Cardinality(RegisteredSince(ip, 0)) = 2
     /\ rateLimiter.stateByIp[ip].present
     /\ rateLimiter.stateByIp[ip].tokens = 0
     /\ OneToken * 2 = rateLimiter.maxConnPerMin * OneToken + now * rateLimiter.maxConnPerMin

\* the least whole number of seconds, at least 1, after which a bucket holding
\* `tokens` units holds one token
SecondsToOneToken(tokens) ==
  CHOOSE s \in 1..(OneMinuteTicks * TickSeconds) :
     /\ tokens * TickSeconds + s * rateLimiter.maxConnPerMin >= OneToken * TickSeconds
     /\ \A earlier \in 1..(s - 1) :
           tokens * TickSeconds + earlier * rateLimiter.maxConnPerMin
              < OneToken * TickSeconds

\* C15: an upgrade that passes the identity check is answered by the rate
\* limiter as follows: with the address at its concurrent cap, 429 with
\* Retry-After 10; below the cap with a token available, it is admitted
\* (registered); below the cap without a token, 429 with Retry-After the time
\* to refill one token in whole seconds, rounded up, at least 1.  A connection
\* that is unregistered leaves the active set, so after a close the address is
\* below its cap again.
C15_RateLimitAnswer ==
  [][\A r \in Reqs :
       /\ (req[r].pc = "new" /\ req'[r].pc # "new" /\ req'[r].status # 403)
            => LET ip == req'[r].ip
                   active == rateLimiter.stateByIp[ip].activeConnectionIds
               IN IF Cardinality(active) >= rateLimiter.maxConnPerIp
                  THEN /\ req'[r].status = 429
                       /\ req'[r].retryAfter = CONCURRENT_LIMIT_RETRY_AFTER_SECONDS
                  ELSE IF TokensAvailable(ip) >= OneToken
                  THEN /\ req'[r].pc = "handler"
                       /\ r \in rateLimiter'.stateByIp[ip].activeConnectionIds
                  ELSE /\ req'[r].status = 429
                       /\ req'[r].retryAfter = SecondsToOneToken(TokensAvailable(ip))
       /\ req'[r].unregisterCalls > req[r].unregisterCalls
            => r \notin rateLimiter'.stateByIp[req[r].ip].activeConnectionIds]_vars

C15_Witness ==
  \E r1, r2 \in Reqs :
     /\ req[r1].ip = req[r2].ip
     /\ req[r1].bridged
     /\ r1 \in rateLimiter.stateByIp[req[r1].ip].activeConnectionIds
     /\ rateLimiter.maxConnPerIp = 1
     /\ req[r2].status = 429
     /\ req[r2].retryAfter = CONCURRENT_LIMIT_RETRY_AFTER_SECONDS

\* ===================================================== claims: socket bridge
\* the payloads sent on the socket of side d, by their position in the
\* sequence received from the other side
SentIndexes(d) == {bridge.sent[d][i].n : i \in 1..Len(bridge.sent[d])}

\* C11: whatever close events, error events, send failures and disconnector
\* calls occur and in whatever order, the bridge tears down exactly once: before
\* the first of them nothing is torn down, and from the first of them on the
\* listeners are removed, each socket has been closed by the bridge exactly once
\* and onClosed has been called exactly once.
C11_SingleTeardown ==
  /\ bridge.onClosedCalls <= 1
  /\ \A s \in Sides : bridge.closeCalls[s] <= 1
  /\ bridge.triggers = 0
        => /\ ~bridge.closed /\ bridge.listening /\ bridge.onClosedCalls = 0
           /\ \A s \in Sides : bridge.closeCalls[s] = 0
  /\ bridge.triggers >= 1
        => /\ bridge.closed /\ ~bridge.listening /\ bridge.onClosedCalls = 1
           /\ \A s \in Sides : bridge.closeCalls[s] = 1

C11_Witness ==
  /\ bridge.triggers = 2
  /\ bridge.onClosedCalls = 1
  /\ \A s \in Sides : bridge.closeCalls[s] = 1 /\ bridge.readyState[s] # WS_OPEN

\* C12: in each direction the payloads are sent to the peer in the order in
\* which they were received, whatever their kinds.
C12_SentInReceivedOrder ==
  \A d \in Sides : \A i, j \in 1..Len(bridge.sent[d]) :
     i < j => bridge.sent[d][i].n < bridge.sent[d][j].n

\* C13: while the bridge is open no received payload is dropped: each payload
\* received from a side has been sent to the other side or is still being
\* unwrapped.
C13_NoDropWhileOpen ==
  ~bridge.closed
     => \A side \in Sides : \A n \in 1..Len(bridge.received[side]) :
           \/ n \in SentIndexes(Peer(side))
           \/ [from |-> side, n |-> n] \in bridge.pending

\* ===================================================== claims: subscription cache
RECURSIVE StoredBytes(_)
StoredBytes(list) ==
  IF list = <<>> THEN 0 ELSE list[1].entry.response.contentLength + StoredBytes(Tail(list))

\* C16: the bytes of the stored responses are at most the byte cap and the
\* entries at most the entry cap (after every set and cleanup, and so in every
\* state); every stored response has status 200 and a size of at most the byte
\* cap, so a response larger than the cap is not stored.
C16_CacheWithinCaps ==
  LET list == subscriptionCache.list
  IN /\ StoredBytes(list) <= DEFAULT_MAX_CACHE_BYTES
     /\ subscriptionCache.totalBytes = StoredBytes(list)
     /\ Len(list) <= DEFAULT_MAX_CACHE_ENTRIES
     /\ \A i \in 1..Len(list) :
           /\ list[i].entry.response.status = 200
           /\ list[i].entry.response.contentLength <= DEFAULT_MAX_CACHE_BYTES
           /\ \A j \in 1..Len(list) : list[i].key = list[j].key => i = j

\* the cache is full by entries and by bytes, and a 200 response larger than
\* the byte cap has been handed to set and is not stored
C16_Witness ==
  /\ Len(subscriptionCache.list) = DEFAULT_MAX_CACHE_ENTRIES
  /\ subscriptionCache.totalBytes = DEFAULT_MAX_CACHE_BYTES
  /\ \E r \in SubReqs :
        /\ sub[r].pc = "done" /\ sub[r].from = "upstream"
        /\ sub[r].response.status = 200
        /\ sub[r].response.contentLength > DEFAULT_MAX_CACHE_BYTES
        /\ NodeOf(subscriptionCache, sub[r].key) = 0

\* the step is request r starting, with its cache lookup
SubStartStep(r) == sub[r].pc = "new" /\ sub'[r].pc # "new"

Hit(r, response) ==
  /\ sub'[r].pc = "done"
  /\ sub'[r].from = "cache"
  /\ sub'[r].response = response

LastStored(key) == CHOOSE s \in stored[key] : \A other \in stored[key] : other <= s

\* C17 (as stated): for every time s at which a 200 response was stored for
\* the key, a request at t with s <= t < s + TTL is answered from the cache
\* without an upstream call while the key has an entry, and the first request
\* at t >= s + TTL starts a new upstream fetch.
C17_TtlFromEveryStore ==
  [][\A r \in SubReqs :
       SubStartStep(r)
          => LET key == sub'[r].key
                 i == NodeOf(subscriptionCache, key)
             IN \A s \in stored[key] :
                   /\ (now < s + ttlTicks /\ i # 0)
                         => Hit(r, subscriptionCache.list[i].entry.response)
                   /\ (/\ now >= s + ttlTicks
                       /\ \A earlier \in SubReqs :
                             ~(/\ sub[earlier].pc # "new"
                               /\ sub[earlier].key = key
                               /\ sub[earlier].startedAt >= s + ttlTicks))
                         => sub'[r].pc = "fetching"]_vars

\* C17 (amended): the TTL of a key counts from the last time a 200 response
\* was stored for it (s): an entry expires at s + TTL and holds a 200 response; a
\* request at t < s + TTL is answered from the cache with the stored response
\* and without an upstream call while the key has an entry, a request at
\* t >= s + TTL, or for a key nothing was stored for, starts an upstream fetch;
\* a response that is not a 200 is never stored, so never answered from cache.
C17_TtlFromLastStore ==
  /\ [](\A i \in 1..Len(subscriptionCache.list) :
          LET node == subscriptionCache.list[i]
          IN /\ node.entry.response.status = 200
             /\ stored[node.key] # {}
             /\ node.entry.expiresAt = LastStored(node.key) + ttlTicks)
  /\ [](\A r \in SubReqs :
          sub[r].from = "cache" => sub[r].response.status = 200)
  /\ [][\A r \in SubReqs :
          /\ SubStartStep(r)
               => LET key == sub'[r].key
                      i == NodeOf(subscriptionCache, key)
                  IN IF stored[key] # {} /\ now < LastStored(key) + ttlTicks /\ i # 0
                     THEN Hit(r, subscriptionCache.list[i].entry.response)
                     ELSE IF stored[key] = {} \/ now >= LastStored(key) + ttlTicks
                     THEN sub'[r].pc = "fetching"
                     ELSE TRUE
          /\ (sub[r].pc = "fetching" /\ sub'[r].pc = "done"
                 /\ sub'[r].response.status # 200)
               => /\ stored' = stored
                  /\ \A i \in 1..Len(subscriptionCache'.list) :
                        subscriptionCache'.list[i].entry.response # sub'[r].response]_vars

\* a response stored at s (by r1) answered a request after s and within the
\* TTL (r2), and a request at s + TTL fetches again (r3)
C17_Witness ==
  \E r1, r2, r3 \in SubReqs :
     /\ sub[r1].pc = "done" /\ sub[r1].from = "upstream" /\ sub[r1].response.status = 200
     /\ sub[r2].key = sub[r1].key /\ sub[r2].from = "cache"
     /\ sub[r2].response = sub[r1].response
     /\ sub[r2].startedAt > sub[r1].startedAt
     /\ sub[r3].key = sub[r1].key /\ sub[r3].pc = "fetching"
     /\ stored[sub[r1].key] # {}
     /\ sub[r3].startedAt = LastStored(sub[r1].key) + ttlTicks

\* ============================================ claims: bounded body reader
ReadBody == BodyOf(read.response.chunks)

DeclaredLength == read.response.contentLength

DeclaredTooLong ==
  DeclaredLength # NoContentLength /\ DeclaredLength > MAX_RESPONSE_SIZE_BYTES

ReadFinished == read.phase \in {"returned", "thrown", "answered"}

\* the call ended with the size-limit error, answered as a 502
ReadFailed ==
  \/ read.phase = "thrown"
  \/ read.phase = "answered"
     /\ read.answer.status = 502 /\ read.answer.text = SIZE_LIMIT_TEXT

\* the call ended with the bytes `body`
ReadGave(body) ==
  /\ read.result = body
  /\ \/ read.phase = "returned"
     \/ read.phase = "answered"
        /\ read.answer.status = 200 /\ read.answer.contentLength = Len(body)

\* the buffer grows only by doubling, bounded by the cap
GrowsByDoubling ==
  [][read.phase = "reading" /\ Len(read'.buffer) > Len(read.buffer)
       => \E k \in 1..MAX_RESPONSE_SIZE_BYTES :
            Len(read'.buffer) =
              Min(MAX_RESPONSE_SIZE_BYTES, Len(read.buffer) * (2 ^ k))]_vars

\* C18 as stated: with cap N, a body of at most N bytes is returned byte for
\* byte whatever its chunking and its Content-Length hint; a body of N+1
\* bytes or more, or a declared Content-Length above N, fails with the
\* size-limit error (a 502); the buffer never exceeds N and grows by doubling.
C18_BoundedReader ==
  /\ [](/\ Len(read.buffer) <= MAX_RESPONSE_SIZE_BYTES
        /\ ReadFinished =>
             IF Len(ReadBody) > MAX_RESPONSE_SIZE_BYTES \/ DeclaredTooLong
             THEN ReadFailed
             ELSE ReadGave(ReadBody))
  /\ GrowsByDoubling

\* C18 amended: the same for every Content-Length hint other than 0; a
\* declared Content-Length of 0 gives the empty body without reading the
\* stream, whatever the stream holds.
C18_BoundedReaderNonZeroHint ==
  /\ [](/\ Len(read.buffer) <= MAX_RESPONSE_SIZE_BYTES
        /\ ReadFinished =>
             IF DeclaredLength = 0
             THEN ReadGave(<<>>) /\ read.next = 1
             ELSE IF Len(ReadBody) > MAX_RESPONSE_SIZE_BYTES \/ DeclaredTooLong
             THEN ReadFailed
             ELSE ReadGave(ReadBody))
  /\ GrowsByDoubling

\* a body of exactly N bytes in two chunks, announced as one byte, is
\* answered whole after the buffer grew from one byte to N
C18_Witness ==
  /\ read.phase = "answered"
  /\ read.answer.status = 200
  /\ DeclaredLength = 1
  /\ Len(read.response.chunks) = 2
  /\ Len(ReadBody) = MAX_RESPONSE_SIZE_BYTES
  /\ read.result = ReadBody
  /\ 1 \in Range(read.result)

\* ================================================ claims: transport routing
\* the transport a selector names once lower-cased, if it names one
NamesTransport(value) == isTransportType(toLowerCase(OrEmpty(value)))

FirstSegment == route.request.pathname[1]

\* the step of the selection order that selected the transport
SelectedBy ==
  IF NamesTransport(route.request.query) THEN "query"
  ELSE IF NamesTransport(route.request.header) THEN "header"
  ELSE IF isTransportType(FirstSegment) THEN "path"
  ELSE "default"

\* the pathname without its leading segment
StrippedPath ==
  IF Len(route.request.pathname) = 1 THEN <<"">>
                                     ELSE Tail(route.request.pathname)

\* C19: the transport of a routed request is the first recognized value, one
\* of ws, xhttp, httpupgrade, found in the order query parameter transport,
\* header x-transport-type, first path segment, configured TRANSPORT, and
\* xhttp when none is recognized; an unrecognized value at any step falls
\* through to the next. The query parameter, the header and TRANSPORT are
\* read lower-cased, the path segment as written.
C19_FirstRecognized ==
  route.phase = "routed" =>
    route.transport =
      IF NamesTransport(route.request.query)
      THEN toLowerCase(route.request.query)
      ELSE IF NamesTransport(route.request.header)
      THEN toLowerCase(route.request.header)
      ELSE IF isTransportType(FirstSegment) THEN FirstSegment
      ELSE IF NamesTransport(route.request.TRANSPORT)
      THEN toLowerCase(route.request.TRANSPORT)
      ELSE DEFAULT_TRANSPORT

\* an unknown query value and no header fall through to the path prefix,
\* which wins over the configured default
C19_Witness ==
  /\ route.phase = "routed"
  /\ route.request.query = "vless"
  /\ route.request.header = Absent
  /\ FirstSegment = "httpupgrade"
  /\ route.request.TRANSPORT = "ws"
  /\ route.transport = "httpupgrade"

\* C20: the leading transport segment is stripped from the forwarded path
\* if and only if the path-prefix step selected the transport; when the
\* query parameter or the header selected it, the path is forwarded
\* unchanged, even if its first segment names a transport.
C20_StrippedIffPathSelected ==
  route.phase = "routed" =>
    route.forwarded.pathname =
      IF SelectedBy = "path" THEN StrippedPath ELSE route.request.pathname

\* GET /xhttp/foo?transport=ws&ed=0, without an x-transport-type header
IsScenarioFive ==
  /\ route.phase = "routed"
  /\ route.request.query = "ws"
  /\ route.request.queryName = "transport"
  /\ route.request.queryEquals
  /\ route.request.header = Absent
  /\ route.request.pathname = <<"xhttp", "foo">>

\* C21 as stated: for GET /xhttp/foo?transport=ws&ed=0 the handler is ws, the
\* path sent upstream is /foo and the transport parameter is absent upstream.
C21_ScenarioFiveStripped ==
  IsScenarioFive =>
    /\ route.transport = "ws"
    /\ route.forwarded.pathname = <<"foo">>
    /\ route.forwarded.query = Absent

\* C21 amended: for GET /xhttp/foo?transport=ws&ed=0 the handler is ws, the
\* path sent upstream is /xhttp/foo (the query parameter selected the
\* transport, so the prefix stays) and the transport parameter is absent
\* upstream.
C21_ScenarioFiveUnchanged ==
  IsScenarioFive =>
    /\ route.transport = "ws"
    /\ route.forwarded.pathname = <<"xhttp", "foo">>
    /\ route.forwarded.query = Absent

C21_Witness ==
  /\ IsScenarioFive
  /\ route.pathTransport = "xhttp"
  /\ route.transport = "ws"
  /\ route.forwarded.pathname = route.request.pathname

\* ============================================== claims: transport handlers
\* C22: for every transport handler, an upgrade request whose method is not
\* GET is answered with 400, no socket pair is created and no upstream
\* handshake is attempted.
C22_NonGetUpgradeRefused ==
  up.phase # "idle" /\ up.request.hasUpgrade /\ up.request.method # "GET" =>
    /\ up.socketPair = "none"
    /\ up.dials = 0
    /\ ~up.bridged
    /\ up.phase = "done" /\ up.status = 400

\* ============================================== claims: identity buckets
\* C23: the number of identity buckets tracked by the identity-session
\* manager never exceeds the cap after any registerConnection or sweep, also
\* when every tracked bucket holds a live session.
C23_BucketsWithinCap ==
  Cardinality(TrackedBuckets(idm)) <= TrackedBucketsCap

\* ------------------------------------------------------------------ C24
\* A step dispatches a probe cycle when it turns the in-flight flag on or
\* moves the schedule mark; a step is a getBackend call when the driver's
\* call count grows.
CycleDispatched ==
  \/ nextHealthCheckAt' # nextHealthCheckAt
  \/ ~healthCheckInFlight /\ healthCheckInFlight'

GetBackendCalled == \E r \in Drivers : drv'[r].calls = drv[r].calls + 1

CycleDue == ~healthCheckInFlight /\ now >= nextHealthCheckAt

\* C24: at most one probe cycle is in flight (probes are pending exactly
\* while the flag is set, and a cycle is dispatched only when none is in
\* flight); a getBackend call dispatches a cycle exactly when the cycle is due
\* and none is in flight, and nothing else dispatches one; a dispatch happens
\* at or after the schedule mark and moves the mark one interval past the
\* current time, so two dispatches are at least one interval apart.
C24_OneCycleAtATime ==
  /\ [](healthCheckInFlight <=> probePending # {})
  /\ [](~healthCheckInFlight => ~probeChanges)
  /\ [][CycleDispatched =>
          /\ GetBackendCalled
          /\ CycleDue
          /\ healthCheckInFlight'
          /\ probePending' = Backends
          /\ nextHealthCheckAt' = now + HealthCheckIntervalTicks
          /\ nextHealthCheckAt' > now']_vars
  /\ [][(GetBackendCalled /\ CycleDue) => CycleDispatched]_vars

\* The driver has called getBackend twice, and the one cycle dispatched at
\* the current time is in flight.
C24_Witness ==
  /\ healthCheckInFlight
  /\ nextHealthCheckAt = now + HealthCheckIntervalTicks
  /\ \E r \in Drivers : drv[r].calls = 2


\* ------------------------------------------------------------------ C25
\* A client request sent to b failed: the driver reported the failure.
ClientFailureOn(b) ==
  /\ drv' # drv
  /\ backends'[b].consecutiveFailures = backends[b].consecutiveFailures + 1

ProbesRecover(b) == ~backends[b].healthy ~> backends[b].healthy

FlagCleared == healthCheckInFlight ~> ~healthCheckInFlight

ActiveOf(rl, ip) ==
  IF rl.stateByIp[ip].present THEN rl.stateByIp[ip].activeConnectionIds ELSE {}

TokensAt(rl, ip, t) ==
  IF rl.stateByIp[ip].present
  THEN refillTokens(rl, rl.stateByIp[ip], t).tokens
  ELSE bucketCapacity(rl)

\* The limiter half: unregisterConnection(ip, connId) with connId not in the
\* active set of ip leaves every active set and every token count as it was.
LimiterUnregisterUnknownNoOp ==
  \A ip \in IPs, connId \in Reqs :
    connId \notin ActiveOf(rateLimiter, ip) =>
      LET after == rlUnregisterConnection(rateLimiter, ip, connId, now)
      IN \A other \in IPs :
           /\ ActiveOf(after, other) = ActiveOf(rateLimiter, other)
           /\ TokensAt(after, other, now) = TokensAt(rateLimiter, other, now)

TrackedSessions(m) ==
  {<<u, c>> \in Uuids \X ConnectionIds : c \in m.bucketsByUuid[u].byConnectionId}

\* C26, for the identity manager: unregisterConnection(u, connectionId) with
\* connectionId not tracked under u leaves every tracked session in place and
\* leaves the connection-id index entry of every tracked session as it was.
C26_UnregisterUnknownNoOp ==
  [][\A u \in Uuids, connectionId \in ConnectionIds :
       (/\ connectionId <= idm.created
        /\ connectionId \notin idm.bucketsByUuid[u].byConnectionId
        /\ idm' = untrackConnection(idm, u, connectionId, now))
       => /\ TrackedSessions(idm') = TrackedSessions(idm)
          /\ \A s \in TrackedSessions(idm) :
                idm'.uuidByConnectionId[s[2]] = idm.uuidByConnectionId[s[2]]]_vars

\* The same for a connection id that no identity tracks.
C26_UnregisterUntrackedNoOp ==
  [][\A u \in Uuids, connectionId \in ConnectionIds :
       (/\ connectionId <= idm.created
        /\ \A v \in Uuids : connectionId \notin idm.bucketsByUuid[v].byConnectionId
        /\ idm' = untrackConnection(idm, u, connectionId, now))
       => /\ TrackedSessions(idm') = TrackedSessions(idm)
          /\ \A s \in TrackedSessions(idm) :
                idm'.uuidByConnectionId[s[2]] = idm.uuidByConnectionId[s[2]]]_vars


\* ------------------------------------------------------------------ C27
\* C27: in every state the limiter reaches, checkConnectionAllowed(ip) leaves
\* the active set of ip as it was, leaves its token count at least as high as
\* it was (stored, and as read after the refill), and a second call at the
\* same time gives the same answer and changes nothing.
C27_CheckIsIdempotent ==
  \A ip \in IPs :
    LET first == rlCheckConnectionAllowed(rateLimiter, ip, now)
        second == rlCheckConnectionAllowed(first.rl, ip, now)
    IN /\ ActiveOf(first.rl, ip) = ActiveOf(rateLimiter, ip)
       /\ rateLimiter.stateByIp[ip].present =>
             first.rl.stateByIp[ip].tokens >= rateLimiter.stateByIp[ip].tokens
       /\ TokensAt(first.rl, ip, now) = TokensAt(rateLimiter, ip, now)
       /\ second.allowed = first.allowed
       /\ \A other \in IPs : second.rl.stateByIp[other] = first.rl.stateByIp[other]
       /\ second.rl.nextCleanupAt = first.rl.nextCleanupAt

\* An address holds a connection, its bucket is below capacity and was last
\* refilled before now, and a check on it is allowed: the check refills
\* the bucket and finds a token.
C27_Witness ==
  \E ip \in IPs :
    /\ rateLimiter.stateByIp[ip].present
    /\ rateLimiter.stateByIp[ip].activeConnectionIds # {}
    /\ rateLimiter.stateByIp[ip].lastRefillAt < now
    /\ rateLimiter.stateByIp[ip].tokens < OneToken
    /\ rlCheckConnectionAllowed(rateLimiter, ip, now).allowed


\* ------------------------------------------------------------------ C28
\* The weight BACKEND_LIST gives to a URL: the sum over its entries.
ConfiguredWeight(l, key) ==
  SumSeq([i \in 1..Len(l) |-> IF l[i].rawUrl = key THEN l[i].weight ELSE 0])

\* Slots drawn uniformly, probabilities as numerators over the table's
\* denominator: the mass of position p times size times denominator.
AliasMass(t, p) ==
  t.probabilities[p]
    + SumSeq([j \in 1..Len(t.aliases) |->
                IF t.aliases[j] = p THEN t.denominator - t.probabilities[j] ELSE 0])

\* C28: the table built over the collapsed BACKEND_LIST gives the backend at
\* position p the mass weight(p) / sum of weights, where weight(p) is the sum
\* of the weights of the entries of its URL; every alias is a slot, and every
\* probability lies between 0 and 1.
C28_AliasMassIsWeightShare ==
  ctor.pc = "built" =>
    LET t == ctor.table
        size == Len(ctor.backends)
        l == ctor.parsedConfigurations
        total == SumSeq([i \in 1..Len(l) |-> l[i].weight])
    IN /\ Len(t.probabilities) = size /\ Len(t.aliases) = size
       /\ t.backendIndexes = [i \in 1..size |-> i]
       /\ {ctor.backends[p].key : p \in 1..size} = {l[i].rawUrl : i \in 1..Len(l)}
       /\ \A p \in 1..size :
            /\ t.aliases[p] \in 1..size
            /\ t.probabilities[p] >= 0 /\ t.probabilities[p] <= t.denominator
            /\ ctor.backends[p].weight = ConfiguredWeight(l, ctor.backends[p].key)
            /\ AliasMass(t, p) * total
                 = ConfiguredWeight(l, ctor.backends[p].key) * size * t.denominator

\* A list with a repeated URL was collapsed to two backends of unequal weight:
\* one slot keeps part of its mass and gives the rest to its alias.
C28_Witness ==
  /\ ctor.pc = "built"
  /\ Len(ctor.backends) = 2
  /\ Len(ctor.parsedConfigurations) = 3
  /\ \E p \in 1..2 :
        /\ ctor.table.probabilities[p] > 0
        /\ ctor.table.probabilities[p] < ctor.table.denominator
        /\ ctor.table.aliases[p] # p


\* ------------------------------------------------------------------ C29
LowestOf(candidates) == CHOOSE i \in candidates : \A j \in candidates : i <= j

\* C29: in sticky mode, whatever is excluded, getBackend returns the healthy
\* backend of lowest position among those not excluded when there is one,
\* and otherwise the backend of lowest position among those not excluded.
C29_StickyLowestHealthy ==
  stickySession =>
    \A excluded \in SUBSET Backends :
      LET left == Backends \ excluded
          healthyLeft == {i \in left : Healthy(i)}
      IN left # {} =>
           getBackend(excluded)
             = {IF healthyLeft # {} THEN LowestOf(healthyLeft) ELSE LowestOf(left)}

\* The same while no probe cycle is in flight.
StickyLowestHealthyBetweenCycles ==
  (stickySession /\ ~healthCheckInFlight) =>
    \A excluded \in SUBSET Backends :
      LET left == Backends \ excluded
          healthyLeft == {i \in left : Healthy(i)}
      IN left # {} =>
           getBackend(excluded)
             = {IF healthyLeft # {} THEN LowestOf(healthyLeft) ELSE LowestOf(left)}


\* ------------------------------------------------------------------ C30
\* Once an event has asked for the teardown, the teardown is complete: both
\* sockets were closed, the listeners are removed and onClosed was notified.
TeardownComplete ==
  bridge.triggers > 0 =>
    /\ bridge.closed
    /\ ~bridge.listening
    /\ \A side \in Sides : bridge.closeCalls[side] = 1
    /\ bridge.onClosedNotified /\ bridge.onClosedCalls = 1

\* C30: whatever the callbacks given to the bridge do, no exception leaves the
\* bridge's code and every teardown that was asked for completes.
C30_CallbacksNeverEscape == ~bridge.escaped /\ TeardownComplete

\* The same for a relay-error callback that returns normally, onClosed
\* throwing or not.
ThrowingOnClosedIsSwallowed ==
  ~bridge.onRelayErrorThrows => (~bridge.escaped /\ TeardownComplete)

\* ===================================================== claims: xhttp early data
\* the bytes a base64url token stands for: every 6-bit character in turn, cut
\* into bytes
TokenBytes(token) ==
  LET n == (Len(token.digits) * 6) \div 8
  IN RadixDigits(RadixValue(token.digits, 64) \div (2 ^ (Len(token.digits) * 6 - n * 8)),
                 256, n)

\* canonical: no character count of 4k+1 and no set bit after the last byte
CanonicalToken(token) ==
  /\ token.name = ""
  /\ Len(token.digits) % 4 # 1
  /\ RadixValue(token.digits, 64)
       % (2 ^ (Len(token.digits) * 6 - ((Len(token.digits) * 6) \div 8) * 8)) = 0

EdOf(request) ==
  IF ~request.ed.present THEN 0
  ELSE IF request.ed.value > MAX_EARLY_DATA_BYTES THEN MAX_EARLY_DATA_BYTES
  ELSE request.ed.value

\* the request carries early data the handler accepts
EarlyDataAccepted(request) ==
  /\ Len(request.protocol) = 1
  /\ toLowerCase(request.protocol[1].name) \notin KNOWN_PROTOCOL_NEGOTIATION_TOKENS
  /\ CanonicalToken(request.protocol[1])
  /\ Len(TokenBytes(request.protocol[1])) <= EdOf(request)

EarlyMessagesOf(messages) == SelectSeq(messages, LAMBDA m : m.kind = "early-data")

\* C31: when the xhttp early data is accepted, the decoded bytes are the first
\* message the bridged backend socket receives, ahead of every relayed client
\* message and exactly once, and no dial's handshake carries the token; with ed
\* 0 or absent the header goes to the backend with its tokens and no socket is
\* sent an early message.
C31_EarlyDataFirstAndOnce ==
  /\ (xh.phase = "bridged" /\ EarlyDataAccepted(xh.request))
        => /\ xh.sockets[xh.bridgedSocket] # <<>>
           /\ xh.sockets[xh.bridgedSocket][1]
                = EarlyMessage(TokenBytes(xh.request.protocol[1]))
           /\ Len(EarlyMessagesOf(xh.sockets[xh.bridgedSocket])) = 1
           /\ \A i \in 1..Len(xh.handshakes) : xh.handshakes[i] = <<>>
  /\ (xh.phase # "idle" /\ EdOf(xh.request) = 0)
        => /\ \A i \in 1..Len(xh.handshakes) : xh.handshakes[i] = xh.request.protocol
           /\ \A i \in 1..Len(xh.sockets) : EarlyMessagesOf(xh.sockets[i]) = <<>>

\* a bridge set up on the second dial after the first socket took the early
\* data, with a client message relayed after the early data
C31_Witness ==
  /\ xh.phase = "bridged"
  /\ EarlyDataAccepted(xh.request)
  /\ xh.bridgedSocket = 2
  /\ Len(xh.sockets[1]) = 1
  /\ Len(xh.sockets[2]) = 2
  /\ Len(TokenBytes(xh.request.protocol[1])) = 2

\* an upgrade with ed absent whose header is a single canonical token
EarlyDataHeaderLeftAlone ==
  /\ xh.phase = "bridged"
  /\ ~xh.request.ed.present
  /\ Len(xh.request.protocol) = 1
  /\ CanonicalToken(xh.request.protocol[1])
  /\ Len(xh.sockets[1]) = 1

\* ===================================================== claims: routing selectors
\* the name and the value a written parameter stands for
DecodedParam(param) == IF param = "a=b%20c" THEN "a=b+c" ELSE param

\* C32: whenever the transport query parameter or the x-transport-type header
\* is present on the inbound request, neither is on the request sent upstream,
\* and the other query parameter is forwarded with its name and value.
C32_SelectorsRemoved ==
  route.phase = "routed"
    => /\ route.forwarded.query = Absent
       /\ route.forwarded.header = Absent
       /\ DecodedParam(route.forwarded.other) = DecodedParam(route.request.other)

\* The header is always removed, the parameter written transport=... is always
\* removed, and the other parameter keeps its name and value.
SelectorsWrittenPlainlyRemoved ==
  route.phase = "routed"
    => /\ route.forwarded.header = Absent
       /\ (route.request.queryName = "transport" /\ route.request.queryEquals)
             => route.forwarded.query = Absent
       /\ DecodedParam(route.forwarded.other) = DecodedParam(route.request.other)

\* ?tr%61nsport=ws selected ws and went upstream
EncodedSelectorForwarded ==
  /\ route.phase = "routed"
  /\ route.request.queryName = "tr%61nsport"
  /\ route.request.pathname = <<"app">>
  /\ route.transport = "ws"
  /\ route.request.TRANSPORT = Absent
  /\ route.forwarded.query = "ws"

\* ===================================================== claims: replacement
\* The step is onConnectionReady of request r registering it with the identity
\* manager and replacing at least one session of the same address.
RegisteredReplacing(r) ==
  /\ req[r].pc = "handler"
  /\ req'[r].pc = "returned"
  /\ req'[r].bridged
  /\ \E c \in Reqs \ {r} : req'[c].disconnectCalls > req[c].disconnectCalls

\* C33: when registerConnection returns having replaced same-address sessions,
\* the new session is in the bucket the manager's identity map holds for the
\* identity, although each replaced session's disconnect callback re-entered
\* the manager through unregisterConnection while registerConnection ran.
C33_NewSessionInMappedBucket ==
  [][\A r \in Reqs :
        RegisteredReplacing(r)
          => /\ uuidManager'.bucket.present
             /\ r \in uuidManager'.bucket.byConnectionId]_vars

\* ===================================================== claims: local responses
\* The handler of driver r settles with a response it made itself, without
\* contacting the selected backend.
LocalResponseStep(r) ==
  /\ drv[r].pc = "handler"
  /\ drv'[r].pc = "done"
  /\ drv'[r].status \in LocalStatuses

\* C35: a response the handler produced locally, without contacting the
\* selected backend, leaves that backend's health bit and its failure counter
\* unchanged.
C35_LocalResponseLeavesHealth ==
  [][\A r \in Drivers :
        LocalResponseStep(r)
          => /\ backends'[Last(drv[r].attemptedBackendUrls)].healthy
                  = backends[Last(drv[r].attemptedBackendUrls)].healthy
             /\ backends'[Last(drv[r].attemptedBackendUrls)].consecutiveFailures
                  = backends[Last(drv[r].attemptedBackendUrls)].consecutiveFailures]_vars

\* A local response never counts as a failure of the backend.
LocalResponseIsNoFailure ==
  [][\A r \in Drivers :
        LocalResponseStep(r)
          => backends'[Last(drv[r].attemptedBackendUrls)].consecutiveFailures
               <= backends[Last(drv[r].attemptedBackendUrls)].consecutiveFailures]_vars

\* ===================================================== claims: 101 and the bridge
\* C34: a request answered 101 has a bridge whose close releases its admission
\* slot: once its response is returned with status 101 and no bridge is open
\* for it, its rate-limit slot has been released and its id is in no active set.
C34_NoSlotWithoutBridge ==
  \A r \in Reqs :
     (req[r].pc = "returned" /\ req[r].status = 101 /\ ~req[r].bridged
        /\ req[r].registerCalls > 0)
       => /\ req[r].released
          /\ \A ip \in IPs : r \notin rateLimiter.stateByIp[ip].activeConnectionIds

\* A 101 that comes with a bridge keeps its slot until the bridge closes, and
\* has released it once the bridge is closed.
BridgedSlotReleasedOnClose ==
  \A r \in Reqs :
     (req[r].pc = "returned" /\ req[r].status = 101 /\ req[r].uuidReady)
       => (req[r].bridged <=> ~req[r].released)

\* ===================================================== claims: admission order
\* The step is fetch deciding the admission of request r, which the rate
\* limiter denies for the request's address.
AdmissionDeniedByLimiter(r) ==
  /\ req[r].pc = "new"
  /\ req'[r].pc # "new"
  /\ ~rlCheckConnectionAllowed(rateLimiter, req'[r].ip, now).allowed

\* C36: the rate limiter is asked before the identity manager: a request the
\* rate limiter denies is answered 429 with Retry-After, also when the identity
\* manager would deny it too, and the identity manager's state is as before.
C36_LimiterBeforeIdentity ==
  [][\A r \in Reqs :
        AdmissionDeniedByLimiter(r)
          => /\ req'[r].status = 429
             /\ req'[r].retryAfter >= 1
             /\ uuidManager' = uuidManager]_vars

\* What the code does: the identity manager is asked first; its denial is
\* answered 403, and only a request it allows is answered the limiter's 429.
IdentityBeforeLimiter ==
  [][\A r \in Reqs :
        AdmissionDeniedByLimiter(r)
          => IF checkConnectionAllowed(World, req'[r].ip, now).allowed
             THEN req'[r].status = 429 /\ req'[r].retryAfter >= 1
             ELSE req'[r].status = 403 /\ req'[r].retryAfter = 0]_vars

\* both controllers deny a request, which is answered 403
BothDenied ==
  \E r \in Reqs :
     /\ req[r].pc = "returned"
     /\ req[r].status = 403
     /\ ~rlCheckConnectionAllowed(rateLimiter, req[r].ip, now).allowed

\* ===================================================== claims: cache key
\* the upstream URL of a subscription request: service and token, and the
\* query string
UpstreamUrl(r) == <<sub[r].key, sub[r].search>>

\* C37: a response served from the subscription cache was fetched for the same
\* upstream URL as the request it is served to.
C37_HitIsForSameUpstreamUrl ==
  \A r \in SubReqs :
     (sub[r].pc = "done" /\ sub[r].from = "cache")
       => UpstreamUrl(sub[r].response.fetchedBy) = UpstreamUrl(r)

\* A hit was fetched for the same service and token.
HitIsForSameKey ==
  \A r \in SubReqs :
     (sub[r].pc = "done" /\ sub[r].from = "cache")
       => sub[sub[r].response.fetchedBy].key = sub[r].key

\* ===================================================== claims: cache recency
\* The step is handleSubscriptionRequest of r answered from the cache.
GetHitStep(r) ==
  sub[r].pc = "new" /\ sub'[r].pc = "done" /\ sub'[r].from = "cache"

\* The step is set() storing the 200 response of r, whose size is within the
\* byte cap.
SetStep(r) ==
  /\ sub[r].pc = "fetching"
  /\ sub'[r].pc = "done"
  /\ sub'[r].response.status = 200
  /\ sub'[r].response.contentLength <= maxBytes

WithoutKey(list, key) == SelectSeq(list, LAMBDA node : node.key # key)

\* the entries a get or set of the key finds, after the cleanup that is due,
\* most recently used first
OthersBefore(key) ==
  WithoutKey(cacheMaybeCleanup(subscriptionCache, now).list, key)

WithinCaps(list) ==
  Len(list) <= maxEntries /\ StoredBytes(list) <= maxBytes

\* C38: a get hit moves the entry to the head of the list and leaves the order
\* of the others; a set puts the new entry at the head and evicts from the tail,
\* least recently used first, exactly until both caps hold, never the new entry
\* when its size is within the byte cap; nodesByKey and the list hold the same
\* entries, once each, and totalBytes is the sum of their sizes.
C38_LruOrderAndBookkeeping ==
  /\ [](/\ subscriptionCache.nodesByKey
             = {subscriptionCache.list[i].key : i \in 1..Len(subscriptionCache.list)}
        /\ Cardinality(subscriptionCache.nodesByKey) = Len(subscriptionCache.list)
        /\ subscriptionCache.totalBytes = StoredBytes(subscriptionCache.list))
  /\ [][\A r \in SubReqs :
          GetHitStep(r)
            => /\ subscriptionCache'.list[1].key = sub'[r].key
               /\ Tail(subscriptionCache'.list) = OthersBefore(sub'[r].key)]_vars
  /\ [][\A r \in SubReqs :
          SetStep(r)
            => LET others == OthersBefore(sub[r].key)
                   list == subscriptionCache'.list
               IN /\ list # <<>>
                  /\ list[1].key = sub[r].key
                  /\ list[1].entry.response = sub'[r].response
                  /\ WithinCaps(list)
                  /\ \E k \in 0..Len(others) :
                        /\ Tail(list) = SubSeq(others, 1, k)
                        /\ k < Len(others)
                              => ~WithinCaps(<<list[1]>> \o SubSeq(others, 1, k + 1))]_vars

\* a hit has moved key 1 ahead of key 2, and the set of key 3 then evicted
\* key 2, the least recently used, before it expired
C38_Witness ==
  /\ now < ttlTicks
  /\ Len(subscriptionCache.list) = 2
  /\ subscriptionCache.list[1].key = 3
  /\ subscriptionCache.list[2].key = 1
  /\ \E r \in SubReqs : sub[r].pc = "done" /\ sub[r].from = "cache" /\ sub[r].key = 1

\* ===================================================== claims: state collection
\* C39: whatever calls are made, each value the rate limiter returns is the
\* value the limiter that never deletes an address's state returns for the
\* same calls.
C39_DeletionUnobservable ==
  gc.returned = gc.expected

\* an address's state has been deleted, and a later check on the limiter was
\* denied for lack of a token
C39_Witness ==
  /\ gc.deleted
  /\ gc.call = "check"
  /\ gc.returned = 0
  /\ \E ip \in IPs :
        /\ gc.limiter.stateByIp[ip].present
        /\ gc.limiter.stateByIp[ip].activeConnectionIds = {}
        /\ gc.limiter.stateByIp[ip].tokens < OneToken

\* ===================================================== claims: nothing sent after teardown
\* C40: once closeBoth has run, no payload is sent to either socket, also when
\* a Blob payload's arrayBuffer() settles after the teardown.
C40_NothingSentAfterClose ==
  [][bridge.closed => bridge'.sent = bridge.sent]_vars

\* a Blob received before the teardown was unwrapped after it, and was not sent
C40_Witness ==
  /\ bridge.closed
  /\ bridge.settledAfterClose
  /\ bridge.pending = {}
  /\ \E side \in Sides :
        /\ \E n \in 1..Len(bridge.received[side]) : bridge.received[side][n] = "blob"
        /\ bridge.sent[Peer(side)] = <<>>

====
